---- MODULE Spec2Model ----
(***************************************************************************)
(* A model of pkgdepdb's package database (src/db.cpp): the packages list, *)
(* the flat object index, the per-object req_found / req_missing sets and  *)
(* the rules and path lists that decide how an object's needs resolve.     *)
(*                                                                         *)
(* Strings whose characters matter (directories, basenames, rpath lists)   *)
(* are sequences of one-character strings; package names are only compared *)
(* for equality and are plain strings.                                     *)
(***************************************************************************)
EXTENDS Integers, Sequences, FiniteSets, TLC

VARIABLES packages, objects, req_found, req_missing,
          library_path, package_library_path,
          ignore_file_rules, assume_found_rules, strict_linking,
          contains_package_depends, contains_groups, contains_filelists,
          base_packages, with_alpm,
          last, run

vars == <<packages, objects, req_found, req_missing,
          library_path, package_library_path,
          ignore_file_rules, assume_found_rules, strict_linking,
          contains_package_depends, contains_groups, contains_filelists,
          base_packages, with_alpm,
          last, run>>

(***************************************************************************)
(* Bounds of the model.                                                    *)
(***************************************************************************)
\* most packages installed at once
MaxPackages == 3
\* largest thread count handed to thread::work
MaxThreads == 3
\* largest package count and thread count the slices are computed for
MaxCount == 12
\* longest library path list an insert is made into
MaxPath == 3
\* longest list of the runs that only insert
MaxMove == 2
\* most lines of a .PKGINFO
MaxLines == 3

(***************************************************************************)
(* Strings.                                                                *)
(***************************************************************************)
DirLib    == <<"/", "l", "i", "b">>
DirUsrLib == <<"/", "u", "s", "r", "/", "l", "i", "b">>
DirOpt    == <<"/", "o">>
DirBin    == <<"/", "b">>
LibA      == <<"a">>
LibB      == <<"c">>
App       == <<"x">>

\* std::string::npos, with 1-based positions
npos == 0

(***************************************************************************)
(* The packages a loader can hand to install_package.  A Package pointer   *)
(* is an index into Loaded, an Elf pointer a pair <<package, position>>.   *)
(* Every object here is ELFCLASS64 (2), ELFDATA2LSB (1); ei_osabi is       *)
(* ELFOSABI_NONE (0) or ELFOSABI_LINUX (3).                                *)
(***************************************************************************)
MkElf(dir, base, osabi, needs) ==
  [dirname |-> dir, basename |-> base,
   ei_class |-> 2, ei_data |-> 1, ei_osabi |-> osabi,
   rpath_set |-> FALSE, rpath |-> <<>>,
   runpath_set |-> FALSE, runpath |-> <<>>,
   needed |-> needs]

MkPkg(n, objs, deps, grps, files) ==
  [name |-> n, version |-> <<>>,
   objects |-> objs, depends |-> deps, optdepends |-> <<>>,
   replaces |-> <<>>, conflicts |-> <<>>, provides |-> <<>>,
   groups |-> grps, filelist |-> files]

\* a package with its metadata lists; its name, its version and every
\* dependency specifier are character sequences
MkMeta(n, ver, objs, deps, opts, provs, repls, confs, files) ==
  [name |-> n, version |-> ver,
   objects |-> objs, depends |-> deps, optdepends |-> opts,
   replaces |-> repls, conflicts |-> confs, provides |-> provs,
   groups |-> {}, filelist |-> files]

LibZ    == <<"z">>
FileEtc == <<"/", "e">>
FileD   == <<"/", "d">>

\* /lib/a carries a DT_RUNPATH and /b/x a DT_RPATH of two directories; the
\* fifth package is a later build of "Q" that ships no object
Loaded ==
  << MkPkg("P", << [MkElf(DirLib, LibA, 0, <<>>) EXCEPT
                      !.runpath_set = TRUE, !.runpath = DirOpt] >>,
           <<>>, {}, <<>>),
     MkPkg("Q", << MkElf(DirOpt, LibA, 3, <<>>) >>, <<>>, {}, <<>>),
     MkPkg("S", << [MkElf(DirBin, App, 0, <<LibA, LibB>>) EXCEPT
                      !.rpath_set = TRUE,
                      !.rpath = DirUsrLib \o <<":">> \o DirBin] >>,
           <<"P">>, {"g"}, << DirBin \o <<"/">> \o App >>),
     MkPkg("",  << MkElf(DirLib, LibB, 0, <<>>) >>, <<>>, {}, <<>>),
     MkPkg("Q", <<>>, <<>>, {}, <<>>) >>

\* the packages with metadata, numbered after those of Loaded
MetaLoaded ==
  << \* m-1 needs a, c and z, depends on f>=2 and optionally on g
     MkMeta(<<"m">>, <<"1">>, << MkElf(DirBin, App, 0, <<LibA, LibB, LibZ>>) >>,
            << <<"f", ">", "=", "2">> >>, << <<"g">> >>,
            <<>>, <<>>, <<>>, << FileEtc >>),
     \* f-2 ships a, depends on h, conflicts with m
     MkMeta(<<"f">>, <<"2">>, << MkElf(DirLib, LibA, 0, <<LibB>>) >>,
            << <<"h">> >>, <<>>,
            <<>>, <<>>, << <<"m">> >>, << FileEtc >>),
     \* h-1 ships c, provides g=2, replaces f
     MkMeta(<<"h">>, <<"1">>, << MkElf(DirLib, LibB, 0, <<>>) >>,
            <<>>, <<>>,
            << <<"g", "=", "2">> >>, << <<"f">> >>, <<>>, << FileEtc >>),
     \* k-1 ships another a, provides f=2 and g, conflicts with f>=2,
     \* depends on the empty specifier and on f!=2
     MkMeta(<<"k">>, <<"1">>, << MkElf(DirOpt, LibA, 0, <<>>) >>,
            << <<>>, <<"f", "!", "=", "2">> >>, <<>>,
            << <<"f", "=", "2">>, <<"g">> >>, <<>>,
            << <<"f", ">", "=", "2">> >>, << FileEtc >>),
     \* n-3 ships nothing, provides f=1, replaces f and g
     MkMeta(<<"n">>, <<"3">>, <<>>,
            <<>>, <<>>,
            << <<"f", "=", "1">> >>, << <<"f">>, <<"g">> >>, <<>>, <<>>),
     \* s-1 depends on itself and on t, optionally on u
     MkMeta(<<"s">>, <<"1">>, <<>>,
            << <<"s">>, <<"t">> >>, << <<"u">> >>,
            <<>>, <<>>, <<>>, <<>>),
     \* t-1 depends on s and on h, provides itself, replaces s
     MkMeta(<<"t">>, <<"1">>, <<>>,
            << <<"s">>, <<"h">> >>, <<>>,
            << <<"t">> >>, << <<"s">> >>, <<>>, <<>>),
     \* u-1 depends on v, which it provides, optionally on t
     MkMeta(<<"u">>, <<"1">>, <<>>,
            << <<"v">> >>, << <<"t">> >>,
            << <<"v">> >>, <<>>, <<>>, <<>>),
     \* d-1 comes from an archive that holds the entry /d twice
     MkMeta(<<"d">>, <<"1">>, <<>>,
            <<>>, <<>>,
            <<>>, <<>>, <<>>, << FileD, FileD, FileEtc >>) >>

\* the packages of the linking scenarios and those of the integrity checks
Pkgs      == 1..5
MetaPkgs  == 6..10
\* packages whose dependencies form cycles, with f and h
CyclePkgs == {7, 8, 11, 12, 13}
\* packages with file lists, one of them with a path listed twice
FilePkgs  == {6, 7, 9, 10, 14}
PkgNames == {Loaded[p].name : p \in Pkgs}
AllObjs  == UNION {{<<p, i>> : i \in 1..Len(Loaded[p].objects)} : p \in Pkgs}
NoElf    == <<0, 0>>

PkgObjects(p) == [i \in 1..Len(Loaded[p].objects) |-> <<p, i>>]
ElfOf(o)      == Loaded[o[1]].objects[o[2]]
OwnerOf(o)    == o[1]

MetaPkg(p)     == MetaLoaded[p - 5]
MetaNames      == {MetaPkg(p).name : p \in MetaPkgs}
MetaObjects(p) == [i \in 1..Len(MetaPkg(p).objects) |-> <<p, i>>]
MetaElfOf(o)   == MetaPkg(o[1]).objects[o[2]]

(***************************************************************************)
(* Helpers on sequences and sets.                                          *)
(***************************************************************************)
RemoveAt(s, i) == SubSeq(s, 1, i - 1) \o SubSeq(s, i + 1, Len(s))
Range(s) == {s[i] : i \in 1..Len(s)}
\* position of the first element equal to x, or Len(s) + 1 (the end iterator)
RECURSIVE IndexFrom(_, _, _)
IndexFrom(s, x, i) ==
  IF i > Len(s) THEN i
  ELSE IF s[i] = x THEN i ELSE IndexFrom(s, x, i + 1)
IndexOf(s, x) == IndexFrom(s, x, 1)

(***************************************************************************)
(* The database as one value, and the state as a database.                 *)
(***************************************************************************)
DB ==
  [packages |-> packages, objects |-> objects,
   req_found |-> req_found, req_missing |-> req_missing,
   library_path |-> library_path,
   package_library_path |-> package_library_path,
   ignore_file_rules |-> ignore_file_rules,
   assume_found_rules |-> assume_found_rules,
   strict_linking |-> strict_linking,
   contains_package_depends |-> contains_package_depends,
   contains_groups |-> contains_groups,
   contains_filelists |-> contains_filelists,
   base_packages |-> base_packages]

SetDB(d) ==
  /\ packages' = d.packages
  /\ objects' = d.objects
  /\ req_found' = d.req_found
  /\ req_missing' = d.req_missing
  /\ library_path' = d.library_path
  /\ package_library_path' = d.package_library_path
  /\ ignore_file_rules' = d.ignore_file_rules
  /\ assume_found_rules' = d.assume_found_rules
  /\ strict_linking' = d.strict_linking
  /\ contains_package_depends' = d.contains_package_depends
  /\ contains_groups' = d.contains_groups
  /\ contains_filelists' = d.contains_filelists
  /\ base_packages' = d.base_packages
  /\ with_alpm' = with_alpm
  /\ run' = run

\* DB::DB()
NewDB ==
  [packages |-> <<>>, objects |-> <<>>,
   req_found |-> [o \in AllObjs |-> {}],
   req_missing |-> [o \in AllObjs |-> {}],
   library_path |-> <<>>,
   package_library_path |-> [n \in {} |-> <<>>],
   ignore_file_rules |-> {},
   assume_found_rules |-> {},
   strict_linking |-> FALSE,
   contains_package_depends |-> FALSE,
   contains_groups |-> FALSE,
   contains_filelists |-> FALSE,
   base_packages |-> {}]

(***************************************************************************)
(* Path visibility and object compatibility.                               *)
(***************************************************************************)
\* std::string::find_first_of(c, from): first position >= from holding c
RECURSIVE find_first_of(_, _, _)
find_first_of(list, c, from) ==
  IF from > Len(list) THEN npos
  ELSE IF list[from] = c THEN from ELSE find_first_of(list, c, from + 1)

RECURSIVE pathlist_scan(_, _, _, _)
pathlist_scan(list, path, at, to) ==
  IF to # npos
  THEN IF SubSeq(list, at, to - 1) = path THEN TRUE
       ELSE pathlist_scan(list, path, to + 1, find_first_of(list, ":", to + 1))
  ELSE SubSeq(list, at, Len(list)) = path

\* pathlist_contains comparing the whole list with the path
pathlist_contains_whole(list, path) == list = path

pathlist_contains(list, path) ==
  pathlist_scan(list, path, 1, find_first_of(list, ":", 1))

\* the list stored for the package's name, or the empty list for nullptr
\* (elf_finds treats a null and an empty list alike)
get_pkg_libpath(d, pkg) ==
  IF Loaded[pkg].name \in DOMAIN d.package_library_path
  THEN d.package_library_path[Loaded[pkg].name]
  ELSE <<>>

get_obj_libpath(d, elf) == get_pkg_libpath(d, OwnerOf(elf))

elf_finds(d, elf, path, extrapaths) ==
  \/ ElfOf(elf).rpath_set /\ pathlist_contains(ElfOf(elf).rpath, path)
  \/ ElfOf(elf).runpath_set /\ pathlist_contains(ElfOf(elf).runpath, path)
  \/ path = DirLib
  \/ path = DirUsrLib
  \/ path \in Range(d.library_path)
  \/ path \in Range(extrapaths)

\* Elf::can_use: equal classes in strict mode, the OS ABI ignored otherwise
can_use(a, b, strict) ==
  /\ ElfOf(a).ei_class = ElfOf(b).ei_class
  /\ ElfOf(a).ei_data = ElfOf(b).ei_data
  /\ strict => ElfOf(a).ei_osabi = ElfOf(b).ei_osabi

\* find_for_from without the visibility test
RECURSIVE find_for_from_no_visibility(_, _, _, _, _)
find_for_from_no_visibility(d, obj, needed, extrapath, i) ==
  IF i > Len(d.objects) THEN NoElf
  ELSE LET lib == d.objects[i] IN
       IF /\ can_use(obj, lib, d.strict_linking)
          /\ ElfOf(lib).basename = needed
       THEN lib
       ELSE find_for_from_no_visibility(d, obj, needed, extrapath, i + 1)

RECURSIVE find_for_from(_, _, _, _, _)
find_for_from(d, obj, needed, extrapath, i) ==
  IF i > Len(d.objects) THEN NoElf
  ELSE LET lib == d.objects[i] IN
       IF /\ can_use(obj, lib, d.strict_linking)
          /\ ElfOf(lib).basename = needed
          /\ elf_finds(d, obj, ElfOf(lib).dirname, extrapath)
       THEN lib
       ELSE find_for_from(d, obj, needed, extrapath, i + 1)

find_for(d, obj, needed, extrapath) == find_for_from(d, obj, needed, extrapath, 1)

(***************************************************************************)
(* Linking one object.                                                     *)
(***************************************************************************)
FullPath(obj) == ElfOf(obj).dirname \o <<"/">> \o ElfOf(obj).basename

\* link_needed without its assume-found test: every miss is recorded
RECURSIVE link_needed_no_assume(_, _, _, _, _)
link_needed_no_assume(d, obj, libpaths, i, sets) ==
  IF i > Len(ElfOf(obj).needed) THEN sets
  ELSE LET needed == ElfOf(obj).needed[i]
           found  == find_for(d, obj, needed, libpaths)
       IN link_needed_no_assume(d, obj, libpaths, i + 1,
            IF found # NoElf
            THEN [sets EXCEPT !.req_found = @ \cup {found}]
            ELSE [sets EXCEPT !.req_missing = @ \cup {needed}])

\* link_needed consulting the assume-found rules before find_for
RECURSIVE link_needed_assume_first(_, _, _, _, _)
link_needed_assume_first(d, obj, libpaths, i, sets) ==
  IF i > Len(ElfOf(obj).needed) THEN sets
  ELSE LET needed == ElfOf(obj).needed[i]
           found  == find_for(d, obj, needed, libpaths)
       IN link_needed_assume_first(d, obj, libpaths, i + 1,
            IF needed \in d.assume_found_rules THEN sets
            ELSE IF found # NoElf
                 THEN [sets EXCEPT !.req_found = @ \cup {found}]
                 ELSE [sets EXCEPT !.req_missing = @ \cup {needed}])

\* the loop over obj->needed, from its i-th element on
RECURSIVE link_needed(_, _, _, _, _)
link_needed(d, obj, libpaths, i, sets) ==
  IF i > Len(ElfOf(obj).needed) THEN sets
  ELSE LET needed == ElfOf(obj).needed[i]
           found  == find_for(d, obj, needed, libpaths)
       IN link_needed(d, obj, libpaths, i + 1,
            IF found # NoElf
            THEN [sets EXCEPT !.req_found = @ \cup {found}]
            ELSE IF needed \notin d.assume_found_rules
                 THEN [sets EXCEPT !.req_missing = @ \cup {needed}]
                 ELSE sets)

\* sets: the two sets link_object inserts into, [req_found, req_missing]
link_object(d, obj, owner, sets) ==
  IF d.ignore_file_rules # {} /\ FullPath(obj) \in d.ignore_file_rules
  THEN sets
  ELSE link_needed(d, obj, get_pkg_libpath(d, owner), 1, sets)

link_object_do(d, obj, owner) ==
  LET r == link_object(d, obj, owner,
             [req_found |-> d.req_found[obj], req_missing |-> d.req_missing[obj]])
  IN [d EXCEPT !.req_found[obj] = r.req_found,
               !.req_missing[obj] = r.req_missing]

(***************************************************************************)
(* delete_package and install_package.  Both return [db, ret]: the         *)
(* database they leave and the boolean they return.                        *)
(***************************************************************************)
RECURSIVE find_pkg_from(_, _, _)
find_pkg_from(d, name, i) ==
  IF i > Len(d.packages) THEN i
  ELSE IF Loaded[d.packages[i]].name = name THEN i
       ELSE find_pkg_from(d, name, i + 1)

\* find_pkg_i that never finds a package
find_pkg_i_none(d, name) == Len(d.packages) + 1

\* position of the first package of that name, Len(packages) + 1 for end()
find_pkg_i(d, name) == find_pkg_from(d, name, 1)

\* references held on an object: the index, its package, the req_found sets
refcount(d, o) ==
  Cardinality({i \in 1..Len(d.objects) : d.objects[i] = o})
  + (IF OwnerOf(o) \in Range(d.packages) THEN 1 ELSE 0)
  + Cardinality({s \in AllObjs : o \in d.req_found[s]})

\* delete_reresolve without the erase of the removed object's reference
RECURSIVE delete_reresolve_keep(_, _, _, _)
delete_reresolve_keep(d, seeker, old, e) ==
  IF e > Len(PkgObjects(old)) THEN d
  ELSE LET elf == PkgObjects(old)[e] IN
       IF elf \notin d.req_found[seeker]
       THEN delete_reresolve_keep(d, seeker, old, e + 1)
       ELSE LET other == find_for(d, seeker, ElfOf(elf).basename,
                                  get_obj_libpath(d, seeker))
            IN delete_reresolve_keep(
                 IF other # NoElf
                 THEN [d EXCEPT !.req_found[seeker] = @ \cup {other}]
                 ELSE [d EXCEPT !.req_missing[seeker] =
                                    @ \cup {ElfOf(elf).basename}],
                 seeker, old, e + 1)

\* one seeker against the removed objects old->objects[e..]
RECURSIVE delete_reresolve(_, _, _, _)
delete_reresolve(d, seeker, old, e) ==
  IF e > Len(PkgObjects(old)) THEN d
  ELSE LET elf == PkgObjects(old)[e] IN
       IF elf \notin d.req_found[seeker]
       THEN delete_reresolve(d, seeker, old, e + 1)
       ELSE LET d1    == [d EXCEPT !.req_found[seeker] = @ \ {elf}]
                other == find_for(d1, seeker, ElfOf(elf).basename,
                                  get_obj_libpath(d1, seeker))
            IN delete_reresolve(
                 IF other # NoElf
                 THEN [d1 EXCEPT !.req_found[seeker] = @ \cup {other}]
                 ELSE [d1 EXCEPT !.req_missing[seeker] =
                                     @ \cup {ElfOf(elf).basename}],
                 seeker, old, e + 1)

RECURSIVE delete_seekers(_, _, _)
delete_seekers(d, old, s) ==
  IF s > Len(d.objects) THEN d
  ELSE delete_seekers(delete_reresolve(d, d.objects[s], old, 1), old, s + 1)

\* delete_package reporting a failure for a name that is not installed
delete_package_absent_fails(d, name) ==
  [db |-> d, ret |-> find_pkg_i(d, name) <= Len(d.packages)]

delete_package(d, name) ==
  LET i == find_pkg_i(d, name) IN
  IF i > Len(d.packages) THEN [db |-> d, ret |-> TRUE]
  ELSE LET old == d.packages[i]
           gone == Range(PkgObjects(old))
           d1 == [d EXCEPT !.packages = RemoveAt(@, i),
                           !.objects = SelectSeq(@, LAMBDA o : o \notin gone)]
           d2 == delete_seekers(d1, old, 1)
           \* delete old: its objects and their sets are destroyed
           d3 == [d2 EXCEPT
                    !.req_found = [o \in AllObjs |-> IF o \in gone THEN {} ELSE @[o]],
                    !.req_missing = [o \in AllObjs |-> IF o \in gone THEN {} ELSE @[o]]]
           d4 == [d3 EXCEPT !.objects = SelectSeq(@, LAMBDA o : refcount(d3, o) # 1)]
       IN [db |-> d4, ret |-> TRUE]

RECURSIVE install_link(_, _, _)
install_link(d, pkg, i) ==
  IF i > Len(PkgObjects(pkg)) THEN d
  ELSE install_link(link_object_do(d, PkgObjects(pkg)[i], pkg), pkg, i + 1)

\* one seeker against the new objects pkg->objects[i..]
RECURSIVE install_fix(_, _, _, _, _)
install_fix(d, seeker, pkg, libpaths, i) ==
  IF i > Len(PkgObjects(pkg)) THEN d
  ELSE LET obj == PkgObjects(pkg)[i] IN
       install_fix(
         IF /\ can_use(seeker, obj, d.strict_linking)
            /\ elf_finds(d, seeker, ElfOf(obj).dirname, libpaths)
            /\ ElfOf(obj).basename \in d.req_missing[seeker]
         THEN [d EXCEPT !.req_missing[seeker] = @ \ {ElfOf(obj).basename},
                        !.req_found[seeker] = @ \cup {obj}]
         ELSE d,
         seeker, pkg, libpaths, i + 1)

RECURSIVE install_seekers(_, _, _, _)
install_seekers(d, pkg, libpaths, s) ==
  IF s > Len(d.objects) THEN d
  ELSE install_seekers(install_fix(d, d.objects[s], pkg, libpaths, 1),
                       pkg, libpaths, s + 1)

install_package(d, pkg) ==
  LET del == delete_package(d, Loaded[pkg].name) IN
  IF ~del.ret THEN [db |-> del.db, ret |-> FALSE]
  ELSE LET P  == Loaded[pkg]
           d1 == [del.db EXCEPT
                    !.packages = Append(@, pkg),
                    !.contains_package_depends =
                        \/ @
                        \/ Len(P.depends) # 0 \/ Len(P.optdepends) # 0
                        \/ Len(P.replaces) # 0 \/ Len(P.conflicts) # 0
                        \/ Len(P.provides) # 0,
                    !.contains_groups = @ \/ P.groups # {},
                    !.contains_filelists = @ \/ Len(P.filelist) # 0]
           libpaths == get_pkg_libpath(d1, pkg)
           d2 == [d1 EXCEPT !.objects = @ \o PkgObjects(pkg)]
           d3 == install_link(d2, pkg, 1)
           d4 == install_seekers(d3, pkg, libpaths, 1)
       IN [db |-> d4, ret |-> TRUE]

\* DB::DB(bool wiped, const DB &copy): the databases the constructor can
\* leave.  The members it names are copied, assume_found_rules is default
\* constructed, the three contains_ flags are not initialized; the Elf
\* objects, and so their sets, are those of the source.
DB_copy(wiped, copy) ==
  {[packages |-> IF wiped THEN <<>> ELSE copy.packages,
    objects |-> IF wiped THEN <<>> ELSE copy.objects,
    req_found |-> copy.req_found, req_missing |-> copy.req_missing,
    library_path |-> copy.library_path,
    package_library_path |-> copy.package_library_path,
    ignore_file_rules |-> copy.ignore_file_rules,
    assume_found_rules |-> {},
    strict_linking |-> copy.strict_linking,
    contains_package_depends |-> flags[1],
    contains_groups |-> flags[2],
    contains_filelists |-> flags[3],
    base_packages |-> copy.base_packages] :
     flags \in BOOLEAN \X BOOLEAN \X BOOLEAN}

\* DB::empty
empty(d) == Len(d.packages) = 0 /\ Len(d.objects) = 0

\* wipe_packages without objects.clear()
wipe_packages_keep_objects(d) ==
  IF empty(d) THEN [db |-> d, ret |-> FALSE]
  ELSE [db |-> [d EXCEPT !.packages = <<>>], ret |-> TRUE]

\* the wiped packages are not deleted; what a later install gets from the
\* loader are new Package and Elf values, their sets empty
wipe_packages(d) ==
  IF empty(d) THEN [db |-> d, ret |-> FALSE]
  ELSE [db |-> [d EXCEPT !.objects = <<>>, !.packages = <<>>,
                         !.req_found = [o \in AllObjs |-> {}],
                         !.req_missing = [o \in AllObjs |-> {}]],
        ret |-> TRUE]

(***************************************************************************)
(* relink_all: the serial loop and the threaded path.                      *)
(***************************************************************************)
RECURSIVE relink_objects(_, _, _)
relink_objects(d, pkg, i) ==
  IF i > Len(PkgObjects(pkg)) THEN d
  ELSE relink_objects(link_object_do(d, PkgObjects(pkg)[i], pkg), pkg, i + 1)

RECURSIVE relink_serial(_, _)
relink_serial(d, p) ==
  IF p > Len(d.packages) THEN d
  ELSE relink_serial(relink_objects(d, d.packages[p], 1), p + 1)

\* work_to handing the last thread a slice of obj_per_thread as well
work_to_no_remainder(Count, threadcount, i) ==
  i * (Count \div threadcount) + (Count \div threadcount)

\* thread::work: the 0-based range [from, to) of thread i of threadcount
work_from(Count, threadcount, i) == i * (Count \div threadcount)
work_to(Count, threadcount, i) ==
  IF i = threadcount - 1 THEN Count
  ELSE i * (Count \div threadcount) + (Count \div threadcount)

EmptySets == [req_found |-> {}, req_missing |-> {}]
EmptyTuple == [found |-> [o \in {} |-> {}], missing |-> [o \in {} |-> {}]]
MapPut(m, k, v) == [x \in DOMAIN m \cup {k} |-> IF x = k THEN v ELSE m[x]]
MapErase(m, k) == [x \in DOMAIN m \ {k} |-> m[x]]

\* the worker's inner loop: the objects pkg->objects[i..] into the tuple
RECURSIVE worker_objects(_, _, _, _)
worker_objects(d, pkg, i, tup) ==
  IF i > Len(PkgObjects(pkg)) THEN tup
  ELSE LET obj == PkgObjects(pkg)[i]
           r   == link_object(d, obj, pkg, EmptySets)
           t1  == IF r.req_found # {}
                  THEN [tup EXCEPT !.found = MapPut(@, obj, r.req_found)]
                  ELSE tup
           t2  == IF r.req_missing # {}
                  THEN [t1 EXCEPT !.missing = MapPut(@, obj, r.req_missing)]
                  ELSE t1
       IN worker_objects(d, pkg, i + 1, t2)

\* the worker on the packages [from, to), 0-based: for (i = from; i != to; ++i)
RECURSIVE worker(_, _, _, _)
worker(d, from, to, tup) ==
  IF from = to THEN tup
  ELSE worker(d, from + 1, to, worker_objects(d, d.packages[from + 1], 1, tup))

\* the merger on one thread's tuple
merge_tuple(d, tup) ==
  [d EXCEPT
     !.req_found = [o \in AllObjs |->
                      IF o \in DOMAIN tup.found THEN tup.found[o] ELSE @[o]],
     !.req_missing = [o \in AllObjs |->
                      IF o \in DOMAIN tup.missing THEN tup.missing[o] ELSE @[o]]]

RECURSIVE merger(_, _, _)
merger(d, Data, t) ==
  IF t > Len(Data) THEN d
  ELSE merger(merge_tuple(d, Data[t]), Data, t + 1)

\* every worker reads the database the call started from; the merger runs
\* after all of them
relink_all_threaded(d, threadcount) ==
  LET Count == Len(d.packages)
      Data  == [t \in 1..threadcount |->
                  worker(d, work_from(Count, threadcount, t - 1),
                            work_to(Count, threadcount, t - 1), EmptyTuple)]
  IN merger(d, Data, 1)

\* the threaded path is taken for more than 100 packages and at least 300
\* objects when more than one job may run
use_threads(d, max_jobs, ncpus) ==
  max_jobs # 1 /\ ncpus > 1 /\ Len(d.packages) > 100 /\ Len(d.objects) >= 300

threadcount_of(max_jobs, ncpus) ==
  IF max_jobs >= 1 /\ max_jobs < ncpus THEN max_jobs ELSE ncpus

relink_all(d, max_jobs, ncpus) ==
  IF Len(d.packages) = 0 THEN d
  ELSE IF use_threads(d, max_jobs, ncpus)
       THEN relink_all_threaded(d, threadcount_of(max_jobs, ncpus))
       ELSE relink_serial(d, 1)

(***************************************************************************)
(* Path normalization and the rule and path editors.                       *)
(***************************************************************************)
fix_push(comps, cur) ==
  IF cur = <<>> \/ cur = <<".">> THEN comps
  ELSE IF cur = <<".", ".">>
       THEN (IF comps = <<>> THEN comps ELSE SubSeq(comps, 1, Len(comps) - 1))
       ELSE Append(comps, cur)

RECURSIVE fix_join(_, _)
fix_join(comps, i) ==
  IF i > Len(comps) THEN <<>>
  ELSE <<"/">> \o comps[i] \o fix_join(comps, i + 1)

RECURSIVE fix_scan(_, _, _, _)
fix_scan(path, i, cur, comps) ==
  IF i > Len(path)
  THEN (LET all == fix_push(comps, cur) IN
        IF all = <<>> THEN <<"/">> ELSE fix_join(all, 1))
  ELSE IF path[i] = "/"
       THEN fix_scan(path, i + 1, <<>>, fix_push(comps, cur))
       ELSE fix_scan(path, i + 1, Append(cur, path[i]), comps)

\* fixpath: no duplicate slash, no "." or "..", no trailing slash
fixpath(path) == fix_scan(path, 1, <<>>, <<>>)

\* normalizes a local copy and returns its argument
fixcpath(dir) == LET s == fixpath(dir) IN dir

\* insertion before the 0-based position i of a list
insert_at(list, i, x) == SubSeq(list, 1, i) \o <<x>> \o SubSeq(list, i + 1, Len(list))

\* the body shared by ld_insert and pkg_ld_insert, on one list: [list, ret]
list_insert(path, dir_, i_) ==
  LET dir == fixpath(dir_)
      i   == IF i_ > Len(path) THEN Len(path) ELSE i_
      old == IndexOf(path, dir)
  IN IF old > Len(path) THEN [list |-> insert_at(path, i, dir), ret |-> TRUE]
     ELSE IF old - 1 = i THEN [list |-> path, ret |-> FALSE]
          ELSE [list |-> insert_at(RemoveAt(path, old), i, dir), ret |-> TRUE]

ld_insert(d, dir_, i) ==
  LET r == list_insert(d.library_path, dir_, i)
  IN [db |-> [d EXCEPT !.library_path = r.list], ret |-> r.ret]

ld_prepend(d, dir) == ld_insert(d, fixcpath(dir), 0)

\* the sequences of length n over the set S
RECURSIVE SeqsOfLen(_, _)
SeqsOfLen(S, n) ==
  IF n = 0 THEN {<<>>}
  ELSE UNION {{Append(t, x) : x \in S} : t \in SeqsOfLen(S, n - 1)}

\* what a string read from outside the vector's elements may hold: "" or
\* a former element
Garbage(path) == Range(path) \cup {<<>>}

\* every outcome of the body of ld_insert and pkg_ld_insert on one list.
\* When dir is in the list at another index and i is the length of the
\* list, insert() is called after erase() with an iterator past the end of
\* the shortened vector: the behaviour is undefined.  The vector then grows
\* by one element as in every insert, so it has its old length again, its
\* elements may hold anything, and the process may crash instead.
list_insert_outcomes(path, dir_, i_) ==
  LET dir == fixpath(dir_)
      i   == IF i_ > Len(path) THEN Len(path) ELSE i_
      old == IndexOf(path, dir)
  IN IF old <= Len(path) /\ old - 1 # i /\ i > Len(path) - 1
     THEN {[list |-> l, ret |-> TRUE, crash |-> FALSE] :
             l \in SeqsOfLen(Garbage(path), Len(path))}
            \cup {[list |-> path, ret |-> FALSE, crash |-> TRUE]}
     ELSE {[list |-> r.list, ret |-> r.ret, crash |-> FALSE] :
             r \in {list_insert(path, dir_, i_)}}

ld_insert_outcomes(d, dir_, i) ==
  {[db |-> [d EXCEPT !.library_path = r.list], ret |-> r.ret, crash |-> r.crash] :
     r \in list_insert_outcomes(d.library_path, dir_, i)}

ld_append_outcomes(d, dir) ==
  ld_insert_outcomes(d, fixcpath(dir), Len(d.library_path))

pkg_ld_insert_outcomes(d, package, dir_, i) ==
  LET path == IF package \in DOMAIN d.package_library_path
              THEN d.package_library_path[package] ELSE <<>>
  IN {[db |-> [d EXCEPT !.package_library_path = MapPut(@, package, r.list)],
       ret |-> r.ret, crash |-> r.crash] :
        r \in list_insert_outcomes(path, dir_, i)}

pkg_ld_delete_at_keep_key(d, package, i) ==
  IF package \notin DOMAIN d.package_library_path THEN [db |-> d, ret |-> FALSE]
  ELSE LET path == d.package_library_path[package]
       IN IF i >= Len(path) THEN [db |-> d, ret |-> FALSE]
          ELSE [db |-> [d EXCEPT !.package_library_path =
                          MapPut(@, package, RemoveAt(path, i + 1))],
                ret |-> TRUE]

\* pkg_ld_delete of the 0-based position i
pkg_ld_delete_at(d, package, i) ==
  IF package \notin DOMAIN d.package_library_path THEN [db |-> d, ret |-> FALSE]
  ELSE LET path == d.package_library_path[package]
       IN IF i >= Len(path) THEN [db |-> d, ret |-> FALSE]
          ELSE [db |-> [d EXCEPT !.package_library_path =
                          IF Len(RemoveAt(path, i + 1)) = 0
                          THEN MapErase(@, package)
                          ELSE MapPut(@, package, RemoveAt(path, i + 1))],
                ret |-> TRUE]

ld_delete_at(d, i) ==
  IF Len(d.library_path) = 0 \/ i >= Len(d.library_path)
  THEN [db |-> d, ret |-> FALSE]
  ELSE [db |-> [d EXCEPT !.library_path = RemoveAt(@, i + 1)], ret |-> TRUE]

\* ld_delete of a directory name (one that does not start with a digit)
ld_delete(d, dir_) ==
  IF Len(dir_) = 0 THEN [db |-> d, ret |-> FALSE]
  ELSE LET dir == fixpath(dir_)
           old == IndexOf(d.library_path, dir)
       IN IF old <= Len(d.library_path)
          THEN [db |-> [d EXCEPT !.library_path = RemoveAt(@, old)], ret |-> TRUE]
          ELSE [db |-> d, ret |-> FALSE]

ld_clear(d) ==
  IF Len(d.library_path) # 0
  THEN [db |-> [d EXCEPT !.library_path = <<>>], ret |-> TRUE]
  ELSE [db |-> d, ret |-> FALSE]

\* package_library_path[package] creates the entry when it is absent
pkg_ld_insert(d, package, dir_, i) ==
  LET path == IF package \in DOMAIN d.package_library_path
              THEN d.package_library_path[package] ELSE <<>>
      r    == list_insert(path, dir_, i)
  IN [db |-> [d EXCEPT !.package_library_path = MapPut(@, package, r.list)],
      ret |-> r.ret]

pkg_ld_delete(d, package, dir_) ==
  LET dir == fixpath(dir_) IN
  IF package \notin DOMAIN d.package_library_path THEN [db |-> d, ret |-> FALSE]
  ELSE LET path == d.package_library_path[package]
           old  == IndexOf(path, dir)
       IN IF old <= Len(path)
          THEN [db |-> [d EXCEPT !.package_library_path =
                          IF Len(RemoveAt(path, old)) = 0
                          THEN MapErase(@, package)
                          ELSE MapPut(@, package, RemoveAt(path, old))],
                ret |-> TRUE]
          ELSE [db |-> d, ret |-> FALSE]

pkg_ld_clear(d, package) ==
  IF package \notin DOMAIN d.package_library_path THEN [db |-> d, ret |-> FALSE]
  ELSE [db |-> [d EXCEPT !.package_library_path = MapErase(@, package)],
        ret |-> TRUE]

ignore_file(d, filename) ==
  [db |-> [d EXCEPT !.ignore_file_rules = @ \cup {fixcpath(filename)}],
   ret |-> fixcpath(filename) \notin d.ignore_file_rules]

unignore_file(d, filename) ==
  [db |-> [d EXCEPT !.ignore_file_rules = @ \ {fixcpath(filename)}],
   ret |-> fixcpath(filename) \in d.ignore_file_rules]

assume_found(d, name) ==
  [db |-> [d EXCEPT !.assume_found_rules = @ \cup {name}],
   ret |-> name \notin d.assume_found_rules]

unassume_found(d, name) ==
  [db |-> [d EXCEPT !.assume_found_rules = @ \ {name}],
   ret |-> name \in d.assume_found_rules]

\* the strict_linking member is assigned by the database's user
set_strict_linking(d, b) == [d EXCEPT !.strict_linking = b]

(***************************************************************************)
(* Dependency specifiers and versions.  with_alpm says whether the build   *)
(* has the version comparator (WITH_ALPM) compiled in.                     *)
(***************************************************************************)
OpChars == {"=", "<", ">", "!"}

\* std::string::find_first_of("=<>!"): first position holding one of them
RECURSIVE find_first_op(_, _)
find_first_op(s, from) ==
  IF from > Len(s) THEN npos
  ELSE IF s[from] \in OpChars THEN from ELSE find_first_op(s, from + 1)

strip_version(s) ==
  LET from == find_first_op(s, 1)
  IN IF from # npos THEN SubSeq(s, 1, from - 1) ELSE s

\* split_depstring: [name, ver, ok, op]; opidx is the 0-based index of the
\* code, the character it names is full[opidx + 1] here
split_depstring(full) ==
  LET at == find_first_op(full, 1) IN
  IF at = npos
  THEN [name |-> full, ver |-> <<>>, ok |-> TRUE, op |-> <<>>]
  ELSE LET name   == SubSeq(full, 1, at - 1)
           op1    == <<full[at]>>
           opidx1 == at
       IN IF opidx1 >= Len(full)
          THEN [name |-> name, ver |-> <<>>, ok |-> FALSE, op |-> op1]
          ELSE LET two    == full[opidx1 + 1] = "="
                   op2    == IF two THEN Append(op1, "=") ELSE op1
                   opidx2 == IF two THEN opidx1 + 1 ELSE opidx1
               IN IF opidx2 >= Len(full)
                  THEN [name |-> name, ver |-> <<>>, ok |-> FALSE, op |-> op2]
                  ELSE [name |-> name, ver |-> SubSeq(full, opidx2 + 1, Len(full)),
                        ok |-> TRUE, op |-> op2]

\* the external comparator on versions that are digit strings: the sign of
\* the difference of their values, the empty version below every other
Digits == <<"0", "1", "2", "3", "4", "5", "6", "7", "8", "9">>
RECURSIVE VerNum(_, _, _)
VerNum(v, i, acc) ==
  IF i > Len(v) THEN acc
  ELSE VerNum(v, i + 1, 10 * acc + (IndexOf(Digits, v[i]) - 1))
alpm_pkg_vercmp(v1, v2) ==
  LET a == IF v1 = <<>> THEN -1 ELSE VerNum(v1, 1, 0)
      b == IF v2 = <<>> THEN -1 ELSE VerNum(v2, 1, 0)
  IN IF a < b THEN -1 ELSE IF a = b THEN 0 ELSE 1

OpEq == <<"=">>
OpNe == <<"!", "=">>
OpGt == <<">">>
OpGe == <<">", "=">>
OpLt == <<"<">>
OpLe == <<"<", "=">>

version_op(op, v1, v2) ==
  LET res == alpm_pkg_vercmp(v1, v2)
  IN \/ op = OpEq /\ res = 0
     \/ op = OpNe /\ res # 0
     \/ op = OpGt /\ res > 0
     \/ op = OpGe /\ res >= 0
     \/ op = OpLt /\ res < 0
     \/ op = OpLe /\ res <= 0

\* does the provided constraint (pop, pver) satisfy the required (dop, dver)
version_satisfies(dop, dver, pop, pver) ==
  LET ret == alpm_pkg_vercmp(dver, pver) IN
  IF dop = pop
  THEN IF dop = OpEq THEN ret = 0
       ELSE IF dop = OpNe THEN ret # 0
       ELSE IF dop = OpGe THEN ret < 0
       ELSE IF dop = OpGt THEN ret <= 0
       ELSE IF dop = OpLe THEN ret > 0
       ELSE IF dop = OpLt THEN ret >= 0
       ELSE FALSE
  ELSE IF dop = OpEq THEN FALSE
  ELSE IF dop = OpNe
       THEN IF pop = OpEq THEN ret # 0
            ELSE IF pop = OpGt THEN ret > 0
            ELSE IF pop = OpGe THEN ret >= 0
            ELSE IF pop = OpLt THEN ret < 0
            ELSE IF pop = OpLe THEN ret <= 0
            ELSE FALSE
  ELSE IF dop = OpGe THEN (pop \in {OpEq, OpGt, OpGe} /\ ret < 0)
  ELSE IF dop = OpGt THEN (pop \in {OpEq, OpGt, OpGe} /\ ret <= 0)
  ELSE IF dop = OpLe THEN (pop \in {OpEq, OpLt, OpLe} /\ ret > 0)
  ELSE IF dop = OpLt THEN (pop \in {OpEq, OpLt, OpLe} /\ ret >= 0)
  ELSE FALSE

\* the loop of package_satisfies over other->provides[i..]
RECURSIVE provides_satisfy(_, _, _, _, _)
provides_satisfy(other, dep, op, ver, i) ==
  IF i > Len(MetaPkg(other).provides) THEN FALSE
  ELSE LET p == split_depstring(MetaPkg(other).provides[i])
       IN IF p.name = dep /\ version_satisfies(op, ver, p.op, p.ver)
          THEN TRUE
          ELSE provides_satisfy(other, dep, op, ver, i + 1)

package_satisfies(other, dep, op, ver) ==
  \/ version_op(op, MetaPkg(other).version, ver)
  \/ provides_satisfy(other, dep, op, ver, 1)

(***************************************************************************)
(* The indices check_integrity builds, and find_depend.  A missing package *)
(* (nullptr) is 0.                                                         *)
(***************************************************************************)
NoPkg == 0

\* pkgmap[p->name] = p over the packages in order: the last one wins
pkgmap_of(d) ==
  [n \in {MetaPkg(d.packages[i]).name : i \in 1..Len(d.packages)} |->
     d.packages[CHOOSE i \in 1..Len(d.packages) :
                  /\ MetaPkg(d.packages[i]).name = n
                  /\ \A j \in i + 1..Len(d.packages) :
                       MetaPkg(d.packages[j]).name # n]]

\* the calls of addit in order: one <<stripped name, package>> per entry of
\* the list `field` of the packages i.. of d
RECURSIVE alias_entries(_, _, _, _)
alias_entries(d, field, i, k) ==
  IF i > Len(d.packages) THEN <<>>
  ELSE LET list == MetaPkg(d.packages[i])[field] IN
       IF k > Len(list) THEN alias_entries(d, field, i + 1, 1)
       ELSE << <<strip_version(list[k]), d.packages[i]>> >>
              \o alias_entries(d, field, i, k + 1)

RECURSIVE entries_of(_, _, _)
entries_of(entries, name, i) ==
  IF i > Len(entries) THEN <<>>
  ELSE (IF entries[i][1] = name THEN <<entries[i][2]>> ELSE <<>>)
         \o entries_of(entries, name, i + 1)

\* providemap and replacemap: name -> the packages listing it, in order
listmap_of(d, field) ==
  LET entries == alias_entries(d, field, 1, 1)
  IN [n \in {entries[i][1] : i \in 1..Len(entries)} |-> entries_of(entries, n, 1)]

\* objmap[o->basename].push_back(o) for every owned object, in order
RECURSIVE objects_named(_, _, _)
objects_named(d, base, i) ==
  IF i > Len(d.objects) THEN <<>>
  ELSE (IF MetaElfOf(d.objects[i]).basename = base THEN <<d.objects[i]>> ELSE <<>>)
         \o objects_named(d, base, i + 1)

objmap_of(d) ==
  [b \in {MetaElfOf(d.objects[i]).basename : i \in 1..Len(d.objects)} |->
     objects_named(d, b, 1)]

\* the base system: the base_packages that are installed; the vector `base`
\* is only searched, so it is the set of its elements here
basemap_of(d, pkgmap) ==
  [n \in d.base_packages \cap DOMAIN pkgmap |-> pkgmap[n]]

integrity_maps(d) ==
  LET pm == pkgmap_of(d) IN
  [pkgmap |-> pm,
   providemap |-> listmap_of(d, "provides"),
   replacemap |-> listmap_of(d, "replaces"),
   objmap |-> objmap_of(d),
   basemap |-> basemap_of(d, pm),
   base |-> {pm[n] : n \in d.base_packages \cap DOMAIN pm}]

\* the first package of list[i..] that satisfies the constraint
RECURSIVE first_satisfying(_, _, _, _, _)
first_satisfying(list, dep, op, ver, i) ==
  IF i > Len(list) THEN NoPkg
  ELSE IF package_satisfies(list[i], dep, op, ver) THEN list[i]
       ELSE first_satisfying(list, dep, op, ver, i + 1)

\* the probe of replacemap or providemap
probe_list(map, dep, op, ver) ==
  IF dep \notin DOMAIN map THEN NoPkg
  ELSE IF ~with_alpm \/ Len(ver) = 0 THEN map[dep][1]
       ELSE first_satisfying(map[dep], dep, op, ver, 1)

find_depend_provides_first(dep_, pkgmap, providemap, replacemap) ==
  IF Len(dep_) = 0 THEN NoPkg
  ELSE LET dep == strip_version(dep_)
       IN IF dep \in DOMAIN pkgmap THEN pkgmap[dep]
          ELSE LET prov == probe_list(providemap, dep, <<>>, <<>>)
               IN IF prov # NoPkg THEN prov
                  ELSE probe_list(replacemap, dep, <<>>, <<>>)

find_depend(dep_, pkgmap, providemap, replacemap) ==
  IF Len(dep_) = 0 THEN NoPkg
  ELSE LET sp  == split_depstring(dep_)
           dep == IF with_alpm THEN sp.name ELSE strip_version(dep_)
           op  == sp.op
           ver == sp.ver
       IN IF /\ dep \in DOMAIN pkgmap
             /\ \/ ~with_alpm
                \/ Len(ver) = 0
                \/ package_satisfies(pkgmap[dep], dep, op, ver)
          THEN pkgmap[dep]
          ELSE LET rep == probe_list(replacemap, dep, op, ver)
               IN IF rep # NoPkg THEN rep
                  ELSE probe_list(providemap, dep, op, ver)

(***************************************************************************)
(* The integrity check of one package and the file conflicts.  A walk is   *)
(* [pulled, installmap]: the vector `packages` of install_recursive, which *)
(* is only searched, as the set of its elements, and the alias map.        *)
(***************************************************************************)
\* installmap[alias] = pkg for the stripped entries list[i..]
RECURSIVE put_aliases(_, _, _, _)
put_aliases(installmap, list, pkg, i) ==
  IF i > Len(list) THEN installmap
  ELSE put_aliases(MapPut(installmap, strip_version(list[i]), pkg), list, pkg, i + 1)

\* install_recursive; its loop over pkg->conflicts prints notices and
\* changes nothing, and so do the messages about missing packages
RECURSIVE install_recursive(_, _, _), install_depends(_, _, _, _, _)
install_recursive(w, pkg, m) ==
  IF MetaPkg(pkg).name \in DOMAIN w.installmap THEN w
  ELSE LET named    == MapPut(w.installmap, MetaPkg(pkg).name, pkg)
           provided == put_aliases(named, MetaPkg(pkg).provides, pkg, 1)
           replaced == put_aliases(provided, MetaPkg(pkg).replaces, pkg, 1)
           pushed   == [pulled |-> w.pulled \cup {pkg}, installmap |-> replaced]
       IN install_depends(install_depends(pushed, pkg, "depends", 1, m),
                          pkg, "optdepends", 1, m)

install_depends(w, pkg, field, i, m) ==
  IF i > Len(MetaPkg(pkg)[field]) THEN w
  ELSE LET found == find_depend(MetaPkg(pkg)[field][i],
                                m.pkgmap, m.providemap, m.replacemap)
       IN install_depends(IF found = NoPkg THEN w
                          ELSE install_recursive(w, found, m),
                          pkg, field, i + 1, m)

\* the closure check_integrity(pkg, ...) starts with: base and basemap,
\* then install_recursive of pkg
pulled_for(pkg, m) ==
  install_recursive([pulled |-> m.base, installmap |-> m.basemap], pkg, m).pulled

\* the vector a set of packages is copied into, in the set's order
RECURSIVE vector_of(_)
vector_of(S) ==
  IF S = {} THEN <<>>
  ELSE LET x == CHOOSE y \in S : \A z \in S : y <= z
       IN <<x>> \o vector_of(S \ {x})

(***************************************************************************)
(* install_recursive call by call.  A walk is [stack, pulled, installmap]: *)
(* the frames of the calls in progress, the vector of pulled packages and  *)
(* the install map.  A frame is [pkg, field, i]: field is "enter" before   *)
(* the body runs, then the name of the list being visited, i the position  *)
(* in it.                                                                  *)
(***************************************************************************)
Frame(pkg, field, i) == [pkg |-> pkg, field |-> field, i |-> i]
Pop(stack) == SubSeq(stack, 1, Len(stack) - 1)
Top(stack) == stack[Len(stack)]
SetTop(stack, f) == [stack EXCEPT ![Len(stack)] = f]

walk_start(pkg, m) ==
  [stack |-> <<Frame(pkg, "enter", 0)>>,
   pulled |-> vector_of(m.base), installmap |-> m.basemap]

\* the entry pushes the package whether or not its name is in installmap
walk_enter_push_first(w) ==
  LET pkg == Top(w.stack).pkg IN
  IF MetaPkg(pkg).name \in DOMAIN w.installmap
  THEN [w EXCEPT !.stack = Pop(@), !.pulled = Append(@, pkg)]
  ELSE LET named    == MapPut(w.installmap, MetaPkg(pkg).name, pkg)
           provided == put_aliases(named, MetaPkg(pkg).provides, pkg, 1)
           replaced == put_aliases(provided, MetaPkg(pkg).replaces, pkg, 1)
       IN [stack |-> SetTop(w.stack, Frame(pkg, "depends", 1)),
           pulled |-> Append(w.pulled, pkg), installmap |-> replaced]

\* the entry of a call: the early return, or the aliases and the push_back
walk_enter(w) ==
  LET pkg == Top(w.stack).pkg IN
  IF MetaPkg(pkg).name \in DOMAIN w.installmap
  THEN [w EXCEPT !.stack = Pop(@)]
  ELSE LET named    == MapPut(w.installmap, MetaPkg(pkg).name, pkg)
           provided == put_aliases(named, MetaPkg(pkg).provides, pkg, 1)
           replaced == put_aliases(provided, MetaPkg(pkg).replaces, pkg, 1)
       IN [stack |-> SetTop(w.stack, Frame(pkg, "depends", 1)),
           pulled |-> Append(w.pulled, pkg), installmap |-> replaced]

\* one iteration of the loop over depends or optdepends, or the loop's end
walk_depend(w, m) ==
  LET f == Top(w.stack) IN
  IF f.i > Len(MetaPkg(f.pkg)[f.field])
  THEN IF f.field = "depends"
       THEN [w EXCEPT !.stack = SetTop(@, Frame(f.pkg, "optdepends", 1))]
       ELSE [w EXCEPT !.stack = Pop(@)]
  ELSE LET found == find_depend(MetaPkg(f.pkg)[f.field][f.i],
                                m.pkgmap, m.providemap, m.replacemap)
           next  == SetTop(w.stack, Frame(f.pkg, f.field, f.i + 1))
       IN [w EXCEPT !.stack = IF found = NoPkg THEN next
                               ELSE Append(next, Frame(found, "enter", 0))]

walk_step(w, m) ==
  IF Top(w.stack).field = "enter" THEN walk_enter(w) ELSE walk_depend(w, m)

\* is some object of list[i..] owned by a pulled package
RECURSIVE owner_pulled(_, _, _)
owner_pulled(list, pulled, i) ==
  IF i > Len(list) THEN FALSE
  ELSE IF OwnerOf(list[i]) \in pulled THEN TRUE
       ELSE owner_pulled(list, pulled, i + 1)

\* the needs obj->needed[k..] that go into the StringSet needed
RECURSIVE unpulled_needs(_, _, _, _)
unpulled_needs(obj, pulled, objmap, k) ==
  IF k > Len(MetaElfOf(obj).needed) THEN {}
  ELSE LET need == MetaElfOf(obj).needed[k]
           miss == \/ need \notin DOMAIN objmap
                   \/ ~owner_pulled(objmap[need], pulled, 1)
       IN (IF miss THEN {need} ELSE {})
            \cup unpulled_needs(obj, pulled, objmap, k + 1)

check_integrity_mark_all(d, pkg, m) ==
  UNION {Range(MetaElfOf(MetaObjects(pkg)[i]).needed) :
           i \in 1..Len(MetaPkg(pkg).objects)}

\* check_integrity of one package with no object filter: the names printed
\* as "doesn't pull in", one line per element of the set
check_integrity(d, pkg, m) ==
  LET pulled == pulled_for(pkg, m)
  IN UNION {unpulled_needs(MetaObjects(pkg)[i], pulled, m.objmap, 1) :
              i \in 1..Len(MetaPkg(pkg).objects)}

\* Package::ConflictsWith, over conflicts_[i..] and other.provides_[k..]
RECURSIVE provides_named(_, _, _)
provides_named(other, name, k) ==
  IF k > Len(MetaPkg(other).provides) THEN FALSE
  ELSE LET prov     == MetaPkg(other).provides[k]
           provname == IF with_alpm THEN split_depstring(prov).name ELSE prov
       IN IF provname = name THEN TRUE ELSE provides_named(other, name, k + 1)

RECURSIVE conflicts_from(_, _, _)
conflicts_from(a, other, i) ==
  IF i > Len(MetaPkg(a).conflicts) THEN FALSE
  ELSE LET conf == MetaPkg(a).conflicts[i]
           sp   == split_depstring(conf)
       IN IF with_alpm /\ Len(sp.ver) # 0
          THEN (IF package_satisfies(other, sp.name, sp.op, sp.ver) THEN TRUE
                ELSE conflicts_from(a, other, i + 1))
          ELSE LET name == IF with_alpm THEN sp.name ELSE conf
               IN IF MetaPkg(other).name = name \/ provides_named(other, name, 1)
                  THEN TRUE
                  ELSE conflicts_from(a, other, i + 1)

ConflictsWith_never(a, other) == FALSE

ConflictsWith(a, other) == conflicts_from(a, other, 1)

\* file_counter[file].push_back(pkg): the bucket of a path, in packages
\* order; a key is a path compared as a string
RECURSIVE bucket_of(_, _, _, _)
bucket_of(d, file, i, k) ==
  IF i > Len(d.packages) THEN <<>>
  ELSE LET list == MetaPkg(d.packages[i]).filelist IN
       IF k > Len(list) THEN bucket_of(d, file, i + 1, 1)
       ELSE (IF list[k] = file THEN <<d.packages[i]>> ELSE <<>>)
              \o bucket_of(d, file, i, k + 1)

file_counter(d) ==
  [f \in UNION {Range(MetaPkg(d.packages[i]).filelist) : i \in 1..Len(d.packages)}
     |-> bucket_of(d, f, 1, 1)]

\* realpkgs: the slots of the bucket whose package conflicts with the
\* package of no other slot
RECURSIVE realpkgs_from(_, _)
realpkgs_from(pkgs, a) ==
  IF a > Len(pkgs) THEN <<>>
  ELSE (IF \E b \in 1..Len(pkgs) : b # a /\ ConflictsWith(pkgs[a], pkgs[b])
        THEN <<>> ELSE <<pkgs[a]>>)
         \o realpkgs_from(pkgs, a + 1)

\* the file-conflict findings: path -> realpkgs, for the paths reported
file_conflicts(d) ==
  LET fc   == file_counter(d)
      real == [f \in DOMAIN fc |-> realpkgs_from(fc[f], 1)]
  IN [f \in {g \in DOMAIN fc : Len(fc[g]) >= 2 /\ Len(real[g]) > 1} |-> real[f]]

add_base_package(d, name) ==
  [db |-> [d EXCEPT !.base_packages = @ \cup {name}],
   ret |-> name \notin d.base_packages]

remove_base_package(d, name) ==
  [db |-> [d EXCEPT !.base_packages = @ \ {name}],
   ret |-> name \in d.base_packages]

(***************************************************************************)
(* read_info: the parser of a package's .PKGINFO.  str is the text as a    *)
(* sequence of characters, pos a 0-based position in it as in the code.    *)
(***************************************************************************)
c_isspace(c) == c \in {" ", "\t", "\n", "\r", "\f"}
ends_word(c) == c_isspace(c) \/ c = "="

RECURSIVE skipwhite(_, _)
skipwhite(str, pos) ==
  IF pos < Len(str) /\ c_isspace(str[pos + 1]) THEN skipwhite(str, pos + 1)
  ELSE pos

RECURSIVE skipline(_, _)
skipline(str, pos) ==
  IF pos < Len(str) /\ str[pos + 1] # "\n" THEN skipline(str, pos + 1)
  ELSE pos

\* str.find_first_of(" \n\r\t", pos), Len(str) standing for npos
RECURSIVE value_end(_, _)
value_end(str, pos) ==
  IF pos < Len(str) /\ str[pos + 1] \notin {" ", "\n", "\r", "\t"}
  THEN value_end(str, pos + 1)
  ELSE pos

\* getvalue: [ok, out, pos]
getvalue(str, pos) ==
  LET eq == skipwhite(str, pos) IN
  IF eq >= Len(str) \/ str[eq + 1] # "="
  THEN [ok |-> FALSE, out |-> <<>>, pos |-> eq]
  ELSE LET from == skipwhite(str, eq + 1) IN
       IF from >= Len(str) THEN [ok |-> FALSE, out |-> <<>>, pos |-> from]
       ELSE [ok |-> TRUE, out |-> SubSeq(str, from + 1, value_end(str, from)),
             pos |-> skipline(str, from)]

\* isentry(what, len): str.compare(pos, len, what) == 0 compares the len
\* characters at pos with the whole of what
isentry(str, pos, what, len) ==
  /\ Len(str) - pos > len
  /\ SubSeq(str, pos + 1, pos + len) = what
  /\ ends_word(str[pos + len + 1])

KeyPkgname   == <<"p", "k", "g", "n", "a", "m", "e">>
KeyPkgver    == <<"p", "k", "g", "v", "e", "r">>
KeyDepend    == <<"d", "e", "p", "e", "n", "d">>
KeyOptdepend == <<"o", "p", "t", "d", "e", "p", "e", "n", "d">>
KeyReplace   == <<"r", "e", "p", "l", "a", "c", "e">>
KeyReplaces  == <<"r", "e", "p", "l", "a", "c", "e", "s">>
KeyConflict  == <<"c", "o", "n", "f", "l", "i", "c", "t">>
KeyProvides  == <<"p", "r", "o", "v", "i", "d", "e", "s">>
KeyGroup     == <<"g", "r", "o", "u", "p">>

\* the tests made when package_depends is set, in their order: the word
\* and the length given to isentry, and the list the value goes to
InfoEntries ==
  << [what |-> KeyDepend,    len |-> Len(KeyDepend),    field |-> "depends"],
     [what |-> KeyOptdepend, len |-> Len(KeyOptdepend), field |-> "optdepends"],
     [what |-> KeyReplace,   len |-> Len(KeyReplaces),  field |-> "replaces"],
     [what |-> KeyConflict,  len |-> Len(KeyConflict),  field |-> "conflicts"],
     [what |-> KeyProvides,  len |-> Len(KeyProvides),  field |-> "provides"],
     [what |-> KeyGroup,     len |-> Len(KeyGroup),     field |-> "groups"] >>

\* the first test of InfoEntries[k..] that matches at pos, 0 for none
RECURSIVE entry_at(_, _, _)
entry_at(str, pos, k) ==
  IF k > Len(InfoEntries) THEN 0
  ELSE IF isentry(str, pos, InfoEntries[k].what, InfoEntries[k].len) THEN k
       ELSE entry_at(str, pos, k + 1)

\* the description after the colon of an optdepend is cut off
cut_colon(es) ==
  LET c == IndexOf(es, ":") IN IF c <= Len(es) THEN SubSeq(es, 1, c - 1) ELSE es

\* what the matched entry does with its value
store(pkg, field, es) ==
  IF field = "groups" THEN [pkg EXCEPT !.groups = @ \cup {es}]
  ELSE IF field = "optdepends"
       THEN (IF Len(cut_colon(es)) # 0
             THEN [pkg EXCEPT !.optdepends = Append(@, cut_colon(es))]
             ELSE pkg)
       ELSE [pkg EXCEPT ![field] = Append(@, es)]

\* the tests after pkgname and pkgver of one round of the loop
store_entry(str, pos, pkg) ==
  LET k == entry_at(str, pos, 1) IN
  IF k = 0 THEN [ok |-> TRUE, pkg |-> pkg, pos |-> skipline(str, pos)]
  ELSE LET v == getvalue(str, pos + InfoEntries[k].len) IN
       [ok |-> v.ok, pos |-> v.pos,
        pkg |-> IF v.ok THEN store(pkg, InfoEntries[k].field, v.out) ELSE pkg]

\* the loop of read_info from pos on: [ok, pkg]
RECURSIVE read_info_from(_, _, _, _)
read_info_from(str, pos_, pkg, package_depends) ==
  IF pos_ >= Len(str) THEN [ok |-> TRUE, pkg |-> pkg]
  ELSE LET pos == skipwhite(str, pos_) IN
       IF isentry(str, pos, KeyPkgname, Len(KeyPkgname))
       THEN LET v == getvalue(str, pos + Len(KeyPkgname)) IN
            IF ~v.ok THEN [ok |-> FALSE, pkg |-> pkg]
            ELSE read_info_from(str, v.pos, [pkg EXCEPT !.name = v.out],
                                package_depends)
       ELSE IF isentry(str, pos, KeyPkgver, Len(KeyPkgver))
       THEN LET v == getvalue(str, pos + Len(KeyPkgver)) IN
            IF ~v.ok THEN [ok |-> FALSE, pkg |-> pkg]
            ELSE read_info_from(str, v.pos, [pkg EXCEPT !.version = v.out],
                                package_depends)
       ELSE IF ~package_depends
       THEN read_info_from(str, skipline(str, pos), pkg, package_depends)
       ELSE LET r == store_entry(str, pos, pkg) IN
            IF ~r.ok THEN [ok |-> FALSE, pkg |-> pkg]
            ELSE read_info_from(str, r.pos, r.pkg, package_depends)

\* a new Package
NewPackage == MkMeta(<<>>, <<>>, <<>>, <<>>, <<>>, <<>>, <<>>, <<>>, <<>>)

read_info(str, package_depends) ==
  read_info_from(str, 0, NewPackage, package_depends)

(***************************************************************************)
(* The state machine: a user of the database calling its operations.       *)
(* last records the call that produced the state; ret is what             *)
(* install_package, delete_package or wipe_packages returned.              *)
(***************************************************************************)
\* no threaded relink in progress
IdleRun ==
  [phase |-> "idle", threadcount |-> 0, quiet |-> FALSE,
   at |-> <<>>, Data |-> <<>>, counter |-> 0, c |-> 0,
   joined |-> 0, merges |-> 0]

Call(op, pkg, name, ret) == [name |-> name, pkg |-> pkg, ret |-> ret, op |-> op]

\* arguments the calls are made with
LdDirs      == {DirOpt, DirOpt \o <<"/">>}
PkgLdNames  == {"Q"}
IgnoreFiles == {DirBin \o <<"/">> \o App}
AssumeNames == {LibA}
DeleteNames == PkgNames \cup {"none"}

Init ==
  /\ packages = NewDB.packages
  /\ objects = NewDB.objects
  /\ req_found = NewDB.req_found
  /\ req_missing = NewDB.req_missing
  /\ library_path = NewDB.library_path
  /\ package_library_path = NewDB.package_library_path
  /\ ignore_file_rules = NewDB.ignore_file_rules
  /\ assume_found_rules = NewDB.assume_found_rules
  /\ strict_linking = NewDB.strict_linking
  /\ contains_package_depends = NewDB.contains_package_depends
  /\ contains_groups = NewDB.contains_groups
  /\ contains_filelists = NewDB.contains_filelists
  /\ base_packages = NewDB.base_packages
  /\ with_alpm = FALSE
  /\ last = Call("new", 0, "", TRUE)
  /\ run = IdleRun

Step(r, call) == SetDB(r.db) /\ last' = call

Install(p) ==
  /\ \/ Len(packages) < MaxPackages
     \/ find_pkg_i(DB, Loaded[p].name) <= Len(packages)
  /\ \E r \in {install_package(DB, p)} :
       Step(r, Call("install", p, Loaded[p].name, r.ret))

Delete(n) ==
  \E r \in {delete_package(DB, n)} :
    Step(r, Call("delete", 0, n, r.ret))

RelinkAll ==
  \E ncpus \in 1..MaxThreads :
    /\ \E r \in {relink_all(DB, 0, ncpus)} : SetDB(r)
    /\ last' = Call("relink", 0, "", TRUE)

RelinkAllThreaded ==
  \E threadcount \in 2..MaxThreads :
    /\ \E r \in {relink_all_threaded(DB, threadcount)} : SetDB(r)
    /\ last' = Call("relink_threaded", 0, "", TRUE)

WipePackages ==
  \E r \in {wipe_packages(DB)} :
    Step(r, Call("wipe", 0, "", r.ret))

LdPrepend ==
  \E dir \in LdDirs :
    \E r \in {ld_prepend(DB, dir)} : Step(r, Call("edit", 0, "", TRUE))

LdDelete ==
  \E dir \in LdDirs :
    \E r \in {ld_delete(DB, dir)} : Step(r, Call("edit", 0, "", TRUE))

LdClear ==
  \E r \in {ld_clear(DB)} : Step(r, Call("edit", 0, "", TRUE))

PkgLdInsert ==
  \E n \in PkgLdNames :
    \E r \in {pkg_ld_insert(DB, n, DirOpt, 0)} : Step(r, Call("edit", 0, "", TRUE))

PkgLdDelete ==
  \E n \in PkgLdNames :
    \E r \in {pkg_ld_delete(DB, n, DirOpt)} : Step(r, Call("edit", 0, "", TRUE))

PkgLdClear ==
  \E n \in PkgLdNames :
    \E r \in {pkg_ld_clear(DB, n)} : Step(r, Call("edit", 0, "", TRUE))

IgnoreFile ==
  \E f \in IgnoreFiles :
    \E r \in {ignore_file(DB, f)} : Step(r, Call("edit", 0, "", TRUE))

UnignoreFile ==
  \E f \in IgnoreFiles :
    \E r \in {unignore_file(DB, f)} : Step(r, Call("edit", 0, "", TRUE))

AssumeFound ==
  \E n \in AssumeNames :
    \E r \in {assume_found(DB, n)} : Step(r, Call("edit", 0, "", TRUE))

UnassumeFound ==
  \E n \in AssumeNames :
    \E r \in {unassume_found(DB, n)} : Step(r, Call("edit", 0, "", TRUE))

SetStrictLinking ==
  \E b \in BOOLEAN :
    /\ SetDB(set_strict_linking(DB, b))
    /\ last' = Call("edit", 0, "", TRUE)

Next ==
  \/ \E p \in Pkgs : Install(p)
  \/ \E n \in DeleteNames : Delete(n)
  \/ RelinkAll
  \/ RelinkAllThreaded
  \/ WipePackages
  \/ LdPrepend
  \/ LdDelete
  \/ LdClear
  \/ PkgLdInsert
  \/ PkgLdDelete
  \/ PkgLdClear
  \/ IgnoreFile
  \/ UnignoreFile
  \/ AssumeFound
  \/ UnassumeFound
  \/ SetStrictLinking

Spec == Init /\ [][Next]_vars

(***************************************************************************)
(* A user who calls relink_all after every rule, path or strict_linking    *)
(* edit, before any other call: stale sets are then relink_all's to clear. *)
(***************************************************************************)
EditResults(d) ==
  {ld_prepend(d, dir).db : dir \in LdDirs}
    \cup {ld_delete(d, dir).db : dir \in LdDirs}
    \cup {ld_clear(d).db}
    \cup {pkg_ld_insert(d, n, DirOpt, 0).db : n \in PkgLdNames}
    \cup {pkg_ld_delete(d, n, DirOpt).db : n \in PkgLdNames}
    \cup {pkg_ld_clear(d, n).db : n \in PkgLdNames}
    \cup {ignore_file(d, f).db : f \in IgnoreFiles}
    \cup {unignore_file(d, f).db : f \in IgnoreFiles}
    \cup {assume_found(d, n).db : n \in AssumeNames}
    \cup {unassume_found(d, n).db : n \in AssumeNames}
    \cup {set_strict_linking(d, b) : b \in BOOLEAN}

EditAndRelink ==
  \E e \in EditResults(DB) :
    \E r \in {relink_all(e, 0, 1)} :
      /\ SetDB(r)
      /\ last' = Call("relink", 0, "", TRUE)

NextRelinked ==
  \/ \E p \in Pkgs : Install(p)
  \/ \E n \in DeleteNames : Delete(n)
  \/ RelinkAll
  \/ RelinkAllThreaded
  \/ WipePackages
  \/ EditAndRelink

SpecRelinked == Init /\ [][NextRelinked]_vars


(***************************************************************************)
(* The threaded relink step by step: thread::work starts the workers,      *)
(* polls the progress counter unless opt_quiet is set, joins the workers   *)
(* in order and runs the merger.  run.at[t] is the worker's loop variable  *)
(* i, run.Data[t] its tuple, run.c the coordinator's copy of the counter.  *)
(* The database calls are made when no relink is in progress.              *)
(***************************************************************************)
dbvars == <<packages, objects, req_found, req_missing,
            library_path, package_library_path,
            ignore_file_rules, assume_found_rules, strict_linking,
            contains_package_depends, contains_groups, contains_filelists,
            base_packages, with_alpm>>

\* thread i (0-based) has left its loop, so that join() on it returns
joinable_always(r, i) == TRUE

\* join() that never returns
joinable_never(r, i) == FALSE

joinable(r, i) ==
  r.at[i + 1] = work_to(Len(packages), r.threadcount, i)

IdleInstall(p) == run.phase = "idle" /\ Install(p)

IdleDelete(n) == run.phase = "idle" /\ Delete(n)

\* relink_all_threaded up to the start of the last worker thread
ThreadedStart ==
  \E threadcount \in 2..MaxThreads : \E opt_quiet \in BOOLEAN :
    /\ run.phase = "idle"
    /\ Len(packages) # 0
    /\ run' = [phase |-> IF opt_quiet THEN "join" ELSE "poll",
               threadcount |-> threadcount, quiet |-> opt_quiet,
               at |-> [t \in 1..threadcount |->
                         work_from(Len(packages), threadcount, t - 1)],
               Data |-> [t \in 1..threadcount |-> EmptyTuple],
               counter |-> 0, c |-> 0, joined |-> 0, merges |-> 0]
    /\ last' = Call("relink_start", 0, "", TRUE)
    /\ UNCHANGED dbvars

\* one turn of the worker's loop over its packages
WorkerStep(t) ==
  /\ run.phase \in {"poll", "join"}
  /\ t \in 1..run.threadcount
  /\ run.at[t] # work_to(Len(packages), run.threadcount, t - 1)
  /\ \E tup \in {worker_objects(DB, packages[run.at[t] + 1], 1, run.Data[t])} :
       run' = [run EXCEPT !.Data[t] = tup,
                          !.at[t] = @ + 1,
                          !.counter = IF run.quiet THEN @ ELSE @ + 1]
  /\ UNCHANGED <<dbvars, last>>

\* one turn of while (c != Count), or its exit
Poll ==
  /\ run.phase = "poll"
  /\ run' = IF run.c # Len(packages)
            THEN [run EXCEPT !.c = run.counter]
            ELSE [run EXCEPT !.phase = "join"]
  /\ UNCHANGED <<dbvars, last>>

\* threads[i]->join() for i = run.joined
Join ==
  /\ run.phase = "join"
  /\ run.joined < run.threadcount
  /\ joinable(run, run.joined)
  /\ run' = [run EXCEPT !.joined = @ + 1]
  /\ UNCHANGED <<dbvars, last>>

\* Merger(std::move(Data)), which assigns req_found and req_missing only
Merge ==
  /\ run.phase = "join"
  /\ run.joined = run.threadcount
  /\ \E m \in {merger(DB, run.Data, 1)} :
       /\ req_found' = m.req_found
       /\ req_missing' = m.req_missing
  /\ run' = [run EXCEPT !.phase = "return", !.merges = @ + 1]
  /\ UNCHANGED <<packages, objects, library_path, package_library_path,
                 ignore_file_rules, assume_found_rules, strict_linking,
                 contains_package_depends, contains_groups,
                 contains_filelists, base_packages, with_alpm, last>>

\* thread::work and relink_all return
Return ==
  /\ run.phase = "return"
  /\ run' = IdleRun
  /\ last' = Call("relink_threaded", 0, "", TRUE)
  /\ UNCHANGED dbvars

RelinkStep ==
  \/ \E t \in 1..MaxThreads : WorkerStep(t)
  \/ Poll
  \/ Join
  \/ Merge
  \/ Return

NextThreaded ==
  \/ \E p \in Pkgs : IdleInstall(p)
  \/ \E n \in DeleteNames : IdleDelete(n)
  \/ ThreadedStart
  \/ RelinkStep

SpecThreaded == Init /\ [][NextThreaded]_vars

\* the scheduler lets a relink in progress take its steps
FairSpecThreaded == SpecThreaded /\ WF_vars(RelinkStep)


(***************************************************************************)
(* The integrity checks on a database that holds packages with metadata.   *)
(* The database starts with some of the metadata packages installed in     *)
(* some order, their objects in the object index in the same order, in a   *)
(* build with or without the comparator; check_integrity reads no          *)
(* req_found or req_missing set.  The user edits base_packages and runs    *)
(* the check; last.ret holds what the call computed.                       *)
(***************************************************************************)
\* the sequences of at most n distinct elements of S
RECURSIVE DistinctSeqs(_, _)
DistinctSeqs(S, n) ==
  IF n = 0 THEN {<<>>}
  ELSE LET shorter == DistinctSeqs(S, n - 1)
       IN shorter \cup UNION {{Append(s, x) : x \in S \ Range(s)} : s \in shorter}

\* the object index after the packages pkgs[i..] were installed in order
RECURSIVE objects_of_packages(_, _)
objects_of_packages(pkgs, i) ==
  IF i > Len(pkgs) THEN <<>>
  ELSE MetaObjects(pkgs[i]) \o objects_of_packages(pkgs, i + 1)

\* arguments the calls are made with
BaseNames == {<<"k">>, <<"m">>}
DepSpecs  == { <<>>, <<"f">>, <<"g">>, <<"z">>, <<"m">>,
               <<"f", ">", "=", "2">>, <<"f", "!", "=", "2">>,
               <<"g", "=", "2">>, <<"f", "=">> }

InitIntegrity ==
  /\ packages \in DistinctSeqs(MetaPkgs, MaxPackages)
  /\ objects = objects_of_packages(packages, 1)
  /\ req_found = NewDB.req_found
  /\ req_missing = NewDB.req_missing
  /\ library_path = NewDB.library_path
  /\ package_library_path = NewDB.package_library_path
  /\ ignore_file_rules = NewDB.ignore_file_rules
  /\ assume_found_rules = NewDB.assume_found_rules
  /\ strict_linking = NewDB.strict_linking
  /\ contains_package_depends = (Len(packages) # 0)
  /\ contains_groups = FALSE
  /\ contains_filelists = (\E i \in 1..Len(packages) :
                             Len(MetaPkg(packages[i]).filelist) # 0)
  /\ base_packages = NewDB.base_packages
  /\ with_alpm \in BOOLEAN
  /\ last = Call("new", 0, "", TRUE)
  /\ run = IdleRun

AddBasePackage ==
  \E n \in BaseNames :
    \E r \in {add_base_package(DB, n)} : Step(r, Call("edit", 0, n, r.ret))

RemoveBasePackage ==
  \E n \in BaseNames :
    \E r \in {remove_base_package(DB, n)} : Step(r, Call("edit", 0, n, r.ret))

\* find_depend on the indices check_integrity builds
FindDepend ==
  \E dep \in DepSpecs :
    \E m \in {integrity_maps(DB)} :
      \E found \in {find_depend(dep, m.pkgmap, m.providemap, m.replacemap)} :
        /\ last' = Call("find_depend", 0, dep, found)
        /\ UNCHANGED <<dbvars, run>>

\* check_integrity(pkg, ...) for one package that passes the filters
CheckIntegrity ==
  \E i \in 1..Len(packages) :
    \E m \in {integrity_maps(DB)} :
      \E pulled \in {pulled_for(packages[i], m)} :
        \E needed \in {check_integrity(DB, packages[i], m)} :
          /\ last' = Call("check_integrity", packages[i], MetaPkg(packages[i]).name,
                          [pulled |-> pulled, needed |-> needed])
          /\ UNCHANGED <<dbvars, run>>

\* the file-conflict pass that ends check_integrity(pkg_filters, obj_filters)
CheckFileConflicts ==
  \E found \in {file_conflicts(DB)} :
    /\ last' = Call("file_conflicts", 0, "", found)
    /\ UNCHANGED <<dbvars, run>>

NextIntegrity ==
  \/ AddBasePackage
  \/ RemoveBasePackage
  \/ FindDepend
  \/ CheckIntegrity
  \/ CheckFileConflicts

SpecIntegrity == InitIntegrity /\ [][NextIntegrity]_vars


(***************************************************************************)
(* The version tests of the build with the comparator, called on their     *)
(* own: version_satisfies on every pair of constraints and                 *)
(* package_satisfies on every metadata package.                            *)
(***************************************************************************)
Ops        == {OpEq, OpNe, OpGt, OpGe, OpLt, OpLe}
Versions   == {<<"1">>, <<"2">>, <<"3">>, <<"1", "0">>}
\* the specifiers with a version constraint the tests are called with
VersionedSpecs ==
  {dep \in DepSpecs : Len(split_depstring(dep).ver) # 0}
    \cup { <<"f", "!", "=", "1">>, <<"f", "!", "=", "3">> }

InitVersions ==
  /\ packages = NewDB.packages
  /\ objects = NewDB.objects
  /\ req_found = NewDB.req_found
  /\ req_missing = NewDB.req_missing
  /\ library_path = NewDB.library_path
  /\ package_library_path = NewDB.package_library_path
  /\ ignore_file_rules = NewDB.ignore_file_rules
  /\ assume_found_rules = NewDB.assume_found_rules
  /\ strict_linking = NewDB.strict_linking
  /\ contains_package_depends = NewDB.contains_package_depends
  /\ contains_groups = NewDB.contains_groups
  /\ contains_filelists = NewDB.contains_filelists
  /\ base_packages = NewDB.base_packages
  /\ with_alpm = TRUE
  /\ last = Call("new", 0, "", TRUE)
  /\ run = IdleRun

VersionSatisfies ==
  \E dop \in Ops, pop \in Ops, dver \in Versions, pver \in Versions :
    \E ret \in {version_satisfies(dop, dver, pop, pver)} :
      /\ last' = Call("version_satisfies", 0,
                      [dop |-> dop, dver |-> dver, pop |-> pop, pver |-> pver], ret)
      /\ UNCHANGED <<dbvars, run>>

PackageSatisfies ==
  \E other \in MetaPkgs, full \in VersionedSpecs :
    \E sp \in {split_depstring(full)} :
      \E ret \in {package_satisfies(other, sp.name, sp.op, sp.ver)} :
        /\ last' = Call("package_satisfies", other, sp, ret)
        /\ UNCHANGED <<dbvars, run>>

NextVersions ==
  \/ VersionSatisfies
  \/ PackageSatisfies

SpecVersions == InitVersions /\ [][NextVersions]_vars


(***************************************************************************)
(* The editors of library_path called with every index.  A call whose      *)
(* behaviour is undefined takes any of its outcomes; after a crash nothing *)
(* more is called.                                                         *)
(***************************************************************************)
LdInputs == {DirOpt, DirOpt \o <<"/">>, DirLib}

\* ld_insert(dir, i); ld_prepend(dir) is the call with i = 0
LdInsert ==
  /\ last.op # "crash"
  /\ \E dir \in LdInputs, i \in 0..MaxPath :
       /\ Len(library_path) < MaxPath \/ fixpath(dir) \in Range(library_path)
       /\ \E r \in ld_insert_outcomes(DB, dir, i) :
            IF r.crash
            THEN /\ last' = Call("crash", 0, [dir |-> dir, i |-> i], FALSE)
                 /\ UNCHANGED <<dbvars, run>>
            ELSE Step(r, Call("ld_insert", 0, [dir |-> dir, i |-> i], r.ret))

LdAppend ==
  /\ last.op # "crash"
  /\ \E dir \in LdInputs :
       /\ Len(library_path) < MaxPath \/ fixpath(dir) \in Range(library_path)
       /\ \E r \in ld_append_outcomes(DB, dir) :
            IF r.crash
            THEN /\ last' = Call("crash", 0,
                                 [dir |-> dir, i |-> Len(library_path)], FALSE)
                 /\ UNCHANGED <<dbvars, run>>
            ELSE Step(r, Call("ld_insert", 0,
                              [dir |-> dir, i |-> Len(library_path)], r.ret))

LdDeleteDir ==
  /\ last.op # "crash"
  /\ \E dir \in LdInputs :
       \E r \in {ld_delete(DB, dir)} : Step(r, Call("ld_delete", 0, dir, r.ret))

\* ld_delete(i), also reached by ld_delete of a string that starts with a digit
LdDeleteAt ==
  /\ last.op # "crash"
  /\ \E i \in 0..MaxPath :
       \E r \in {ld_delete_at(DB, i)} : Step(r, Call("ld_delete", 0, i, r.ret))

LdClearAll ==
  /\ last.op # "crash"
  /\ \E r \in {ld_clear(DB)} : Step(r, Call("ld_clear", 0, "", r.ret))

NextLdPath ==
  \/ LdInsert
  \/ LdAppend
  \/ LdDeleteDir
  \/ LdDeleteAt
  \/ LdClearAll

SpecLdPath == Init /\ [][NextLdPath]_vars


(***************************************************************************)
(* The editors of package_library_path, called for a package that gets a   *)
(* list and for one that is never inserted.                                *)
(***************************************************************************)
PathPkgNames == PkgLdNames
PathPkgArgs  == PathPkgNames \cup {"none"}

PathOf(map, n) == IF n \in DOMAIN map THEN map[n] ELSE <<>>

PkgCall(op, n, arg, ret) == Call(op, 0, [package |-> n, arg |-> arg], ret)

PkgLdInsertAt ==
  /\ last.op # "crash"
  /\ \E n \in PathPkgNames, dir \in LdInputs, i \in 0..MaxPath :
       /\ \/ Len(PathOf(package_library_path, n)) < MaxPath
          \/ fixpath(dir) \in Range(PathOf(package_library_path, n))
       /\ \E r \in pkg_ld_insert_outcomes(DB, n, dir, i) :
            IF r.crash
            THEN /\ last' = PkgCall("crash", n, i, FALSE)
                 /\ UNCHANGED <<dbvars, run>>
            ELSE Step(r, PkgCall("pkg_ld_insert", n, i, r.ret))

PkgLdDeleteDir ==
  /\ last.op # "crash"
  /\ \E n \in PathPkgArgs, dir \in LdInputs :
       \E r \in {pkg_ld_delete(DB, n, dir)} :
         Step(r, PkgCall("pkg_ld_delete_dir", n, dir, r.ret))

PkgLdDeleteAt ==
  /\ last.op # "crash"
  /\ \E n \in PathPkgArgs, i \in 0..MaxPath :
       \E r \in {pkg_ld_delete_at(DB, n, i)} :
         Step(r, PkgCall("pkg_ld_delete_at", n, i, r.ret))

PkgLdClearAll ==
  /\ last.op # "crash"
  /\ \E n \in PathPkgArgs :
       \E r \in {pkg_ld_clear(DB, n)} :
         Step(r, PkgCall("pkg_ld_clear", n, 0, r.ret))

NextPkgLdPath ==
  \/ PkgLdInsertAt
  \/ PkgLdDeleteDir
  \/ PkgLdDeleteAt
  \/ PkgLdClearAll

SpecPkgLdPath == Init /\ [][NextPkgLdPath]_vars


(***************************************************************************)
(* The ignore rules given several spellings of the path of the object /b/x *)
(* of package S, which is installed and deleted in between.                *)
(***************************************************************************)
IgnoreSpellings ==
  {DirBin \o <<"/">> \o App,
   DirBin \o <<"/", "/">> \o App,
   DirBin \o <<"/", ".", "/">> \o App}

IgnoreSpelled ==
  \E f \in IgnoreSpellings :
    \E r \in {ignore_file(DB, f)} : Step(r, Call("ignore_file", 0, f, r.ret))

UnignoreSpelled ==
  \E f \in IgnoreSpellings :
    \E r \in {unignore_file(DB, f)} : Step(r, Call("unignore_file", 0, f, r.ret))

NextIgnore ==
  \/ IgnoreSpelled
  \/ UnignoreSpelled
  \/ Install(3)
  \/ Delete("S")

SpecIgnore == Init /\ [][NextIgnore]_vars


(***************************************************************************)
(* Installs and deletes on a database where package S, the owner of the    *)
(* seeker /b/x, gets and loses the extra library path /o; relink_all runs  *)
(* after each path edit, before any other call.                            *)
(***************************************************************************)
SeekerPkgNames == {"S"}

SeekerPathResults(d) ==
  {pkg_ld_insert(d, n, DirOpt, 0).db : n \in SeekerPkgNames}
    \cup {pkg_ld_delete(d, n, DirOpt).db : n \in SeekerPkgNames}

SeekerPathAndRelink ==
  \E e \in SeekerPathResults(DB) :
    \E r \in {relink_all(e, 0, 1)} :
      /\ SetDB(r)
      /\ last' = Call("relink", 0, "", TRUE)

NextSeekerPath ==
  \/ \E p \in Pkgs : Install(p)
  \/ \E n \in DeleteNames : Delete(n)
  \/ SeekerPathAndRelink

SpecSeekerPath == Init /\ [][NextSeekerPath]_vars


(***************************************************************************)
(* Inserts alone, into library_path and into the list of one package, so   *)
(* that most calls are made with a directory the list already holds.       *)
(***************************************************************************)
MoveCall(op, global, n, dir, i, ret) ==
  Call(op, 0, [global |-> global, package |-> n, dir |-> dir, i |-> i], ret)

MoveLdInsert ==
  /\ last.op # "crash"
  /\ \E dir \in LdInputs, i \in 0..MaxMove :
       /\ Len(library_path) < MaxMove \/ fixpath(dir) \in Range(library_path)
       /\ \E r \in ld_insert_outcomes(DB, dir, i) :
            IF r.crash
            THEN /\ last' = MoveCall("crash", TRUE, "", dir, i, FALSE)
                 /\ UNCHANGED <<dbvars, run>>
            ELSE Step(r, MoveCall("ld_insert", TRUE, "", dir, i, r.ret))

MoveLdAppend ==
  /\ last.op # "crash"
  /\ \E dir \in LdInputs :
       /\ Len(library_path) < MaxMove \/ fixpath(dir) \in Range(library_path)
       /\ \E r \in ld_append_outcomes(DB, dir) :
            IF r.crash
            THEN /\ last' = MoveCall("crash", TRUE, "", dir,
                                     Len(library_path), FALSE)
                 /\ UNCHANGED <<dbvars, run>>
            ELSE Step(r, MoveCall("ld_append", TRUE, "", dir,
                                  Len(library_path), r.ret))

MovePkgLdInsert ==
  /\ last.op # "crash"
  /\ \E n \in PathPkgNames, dir \in LdInputs, i \in 0..MaxMove :
       /\ \/ Len(PathOf(package_library_path, n)) < MaxMove
          \/ fixpath(dir) \in Range(PathOf(package_library_path, n))
       /\ \E r \in pkg_ld_insert_outcomes(DB, n, dir, i) :
            IF r.crash
            THEN /\ last' = MoveCall("crash", FALSE, n, dir, i, FALSE)
                 /\ UNCHANGED <<dbvars, run>>
            ELSE Step(r, MoveCall("pkg_ld_insert", FALSE, n, dir, i, r.ret))

NextMove ==
  \/ MoveLdInsert
  \/ MoveLdAppend
  \/ MovePkgLdInsert

SpecMove == Init /\ [][NextMove]_vars


(***************************************************************************)
(* One closure computed call by call on a database that holds packages     *)
(* with cyclic dependencies; run holds the walk.  A step of the walk is    *)
(* taken whenever one is possible.                                         *)
(***************************************************************************)
CycleBases == {{}, {<<"t">>}}

\* a database on which some packages of S were installed in some order
InitInstalled(S) ==
  /\ packages \in DistinctSeqs(S, MaxPackages)
  /\ objects = objects_of_packages(packages, 1)
  /\ req_found = NewDB.req_found
  /\ req_missing = NewDB.req_missing
  /\ library_path = NewDB.library_path
  /\ package_library_path = NewDB.package_library_path
  /\ ignore_file_rules = NewDB.ignore_file_rules
  /\ assume_found_rules = NewDB.assume_found_rules
  /\ strict_linking = NewDB.strict_linking
  /\ contains_package_depends =
       (\E i \in 1..Len(packages) :
          \/ Len(MetaPkg(packages[i]).depends) # 0
          \/ Len(MetaPkg(packages[i]).optdepends) # 0
          \/ Len(MetaPkg(packages[i]).replaces) # 0
          \/ Len(MetaPkg(packages[i]).conflicts) # 0
          \/ Len(MetaPkg(packages[i]).provides) # 0)
  /\ contains_groups = FALSE
  /\ contains_filelists = (\E i \in 1..Len(packages) :
                             Len(MetaPkg(packages[i]).filelist) # 0)

InitClosure ==
  /\ InitInstalled(CyclePkgs)
  /\ base_packages \in CycleBases
  /\ with_alpm = FALSE
  /\ last = Call("new", 0, "", TRUE)
  /\ run = [phase |-> "idle"]

\* check_integrity(pkg, ...) copies base and basemap and calls install_recursive
WalkStart ==
  /\ run.phase = "idle"
  /\ \E i \in 1..Len(packages) :
       \E w \in {walk_start(packages[i], integrity_maps(DB))} :
         /\ run' = [phase |-> "walk", focus |-> packages[i], walk |-> w]
         /\ last' = Call("install_recursive", packages[i], "", TRUE)
  /\ UNCHANGED dbvars

WalkStep ==
  /\ run.phase = "walk"
  /\ \E w \in {walk_step(run.walk, integrity_maps(DB))} :
       run' = [run EXCEPT !.walk = w,
                          !.phase = IF Len(w.stack) = 0 THEN "done" ELSE "walk"]
  /\ UNCHANGED <<dbvars, last>>

NextClosure ==
  \/ WalkStart
  \/ WalkStep

SpecClosure == InitClosure /\ [][NextClosure]_vars

FairSpecClosure == SpecClosure /\ WF_vars(WalkStep)


(***************************************************************************)
(* Copies of a database that has been configured and has a package         *)
(* installed; the user goes on with the copy.                              *)
(***************************************************************************)
CopyDB ==
  \E wiped \in BOOLEAN :
    \E d \in DB_copy(wiped, DB) :
      /\ SetDB(d)
      /\ last' = Call("copy", 0, wiped, TRUE)

NextCopy ==
  \/ Install(3)
  \/ LdPrepend
  \/ PkgLdInsert
  \/ IgnoreFile
  \/ AssumeFound
  \/ AddBasePackage
  \/ SetStrictLinking
  \/ CopyDB

SpecCopy == Init /\ [][NextCopy]_vars


(***************************************************************************)
(* The file-conflict pass on databases that hold packages with file lists, *)
(* one of which lists a path twice.                                        *)
(***************************************************************************)
InitFiles ==
  /\ InitInstalled(FilePkgs)
  /\ base_packages = NewDB.base_packages
  /\ with_alpm \in BOOLEAN
  /\ last = Call("new", 0, "", TRUE)
  /\ run = IdleRun

NextFiles == CheckFileConflicts

SpecFiles == InitFiles /\ [][NextFiles]_vars


(***************************************************************************)
(* Reading a .PKGINFO: lines are written to the text, then read_info       *)
(* parses it.  run holds the lines written and the package_depends option. *)
(***************************************************************************)
InfoLine(key, value) == [key |-> key, value |-> value]

InfoLines ==
  { InfoLine(KeyPkgname, <<"p">>),   InfoLine(KeyPkgver, <<"1">>),
    InfoLine(KeyDepend, <<"a">>),    InfoLine(KeyDepend, <<"b">>),
    InfoLine(KeyOptdepend, <<"o">>), InfoLine(KeyReplaces, <<"r">>),
    InfoLine(KeyConflict, <<"c">>),  InfoLine(KeyProvides, <<"v">>),
    InfoLine(KeyGroup, <<"g">>) }

\* the characters of the lines as makepkg writes them: key = value
RECURSIVE InfoText(_)
InfoText(lines) ==
  IF lines = <<>> THEN <<>>
  ELSE Head(lines).key \o <<" ", "=", " ">> \o Head(lines).value \o <<"\n">>
       \o InfoText(Tail(lines))

InitInfo ==
  /\ InitInstalled({})
  /\ base_packages = NewDB.base_packages
  /\ with_alpm = FALSE
  /\ last = Call("new", 0, "", TRUE)
  /\ run \in [phase : {"info"}, lines : {<<>>}, package_depends : BOOLEAN]

WriteLine ==
  /\ last.op = "new"
  /\ Len(run.lines) < MaxLines
  /\ \E l \in InfoLines : run' = [run EXCEPT !.lines = Append(@, l)]
  /\ UNCHANGED << dbvars, last >>

ReadInfo ==
  /\ last.op = "new"
  /\ \E r \in {read_info(InfoText(run.lines), run.package_depends)} :
       last' = Call("read_info", 0, "", r)
  /\ UNCHANGED << dbvars, run >>

NextInfo == WriteLine \/ ReadInfo

SpecInfo == InitInfo /\ [][NextInfo]_vars

(***************************************************************************)
(* Properties.                                                             *)
(***************************************************************************)
Installed  == Range(objects)
RelinkOps  == {"relink", "relink_threaded"}
LinkOps    == {"install", "delete"} \cup RelinkOps
NeededOf(o) == Range(ElfOf(o).needed)
FoundNames(o) == {ElfOf(x).basename : x \in req_found[o]}
SeekerS    == <<3, 1>>

\* C1 (I1, partition): after every install_package, delete_package or
\* relink_all, for every installed object the basenames of req_found, the
\* names of req_missing and the needed names under an assume-found rule are
\* pairwise disjoint and together are exactly the needed names.
C1_Partition ==
  last.op \in LinkOps =>
    \A o \in Installed :
      LET assumed == NeededOf(o) \cap assume_found_rules IN
      /\ FoundNames(o) \cup req_missing[o] \cup assumed = NeededOf(o)
      /\ FoundNames(o) \cap req_missing[o] = {}
      /\ FoundNames(o) \cap assumed = {}
      /\ req_missing[o] \cap assumed = {}

Ignored(o) == FullPath(o) \in ignore_file_rules

\* C1, amended: the found basenames and the missing names of every installed
\* object are needed names; and right after install_package(P) every object
\* of P that no ignore rule names has its needed names covered by the found
\* basenames, the missing names and the assumed names, a missing name being
\* neither found nor assumed.
C1_SubsetAndFreshPartition ==
  /\ last.op \in LinkOps =>
       \A o \in Installed : FoundNames(o) \cup req_missing[o] \subseteq NeededOf(o)
  /\ last.op = "install" =>
       \A o \in Range(PkgObjects(last.pkg)) :
         ~Ignored(o) =>
           /\ FoundNames(o) \cup req_missing[o]
                \cup (NeededOf(o) \cap assume_found_rules) = NeededOf(o)
           /\ req_missing[o] \cap FoundNames(o) = {}
           /\ req_missing[o] \cap assume_found_rules = {}

\* the seeker's package was just installed under an assume-found rule for a
\* name it needs, with one need found and another neither found nor assumed
C1_Witness ==
  /\ last.op = "install" /\ last.pkg = 3
  /\ ~Ignored(SeekerS)
  /\ NeededOf(SeekerS) \cap assume_found_rules # {}
  /\ req_found[SeekerS] # {}
  /\ req_missing[SeekerS] # {}

\* C2 (I7, relink equivalence): after relink_all every installed object's
\* req_found and req_missing are exactly what link_object computes from
\* empty sets on the current database.
C2_RelinkFromScratch ==
  last.op \in RelinkOps =>
    \A o \in Installed :
      LET r == link_object(DB, o, OwnerOf(o), EmptySets) IN
      /\ req_found[o] = r.req_found
      /\ req_missing[o] = r.req_missing

\* C3 (parallel/serial equality): from the same database the threaded relink,
\* with any thread count from 2 on, and the serial relink loop leave every
\* installed object with the same req_found and the same req_missing.
C3_ThreadedEqualsSerial ==
  \A threadcount \in 2..MaxThreads :
    LET t == relink_all_threaded(DB, threadcount)
        q == relink_serial(DB, 1)
    IN \A o \in Installed :
         /\ t.req_found[o] = q.req_found[o]
         /\ t.req_missing[o] = q.req_missing[o]

\* C4 (I3, visibility): after every install_package, delete_package or
\* relink_all, the directory of every object in an installed object's
\* req_found is visible to that object with its own package's extra paths.
C4_Visibility ==
  last.op \in LinkOps =>
    \A o \in Installed : \A r \in req_found[o] :
      elf_finds(DB, o, ElfOf(r).dirname, get_obj_libpath(DB, o))

\* C5 (I6, round trip): when no package of p's name is installed,
\* install_package(p) followed by delete_package(p.name) restores packages,
\* objects and the req_found and req_missing of every object installed before.
C5_InstallDeleteRoundTrip ==
  \A p \in Pkgs :
    find_pkg_i(DB, Loaded[p].name) > Len(packages) =>
      LET a == install_package(DB, p).db
          b == delete_package(a, Loaded[p].name).db
      IN /\ b.packages = packages
         /\ b.objects = objects
         /\ \A o \in Installed :
              /\ b.req_found[o] = req_found[o]
              /\ b.req_missing[o] = req_missing[o]

\* C6 (I5, idempotence): installing a package a second time right after
\* installing it leaves packages, objects and every object's req_found and
\* req_missing as the first install left them.
C6_InstallIdempotent ==
  \A p \in Pkgs :
    LET a == install_package(DB, p).db
        b == install_package(a, p).db
    IN /\ b.packages = a.packages
       /\ b.objects = a.objects
       /\ b.req_found = a.req_found
       /\ b.req_missing = a.req_missing

\* C7 (I4, ownership): every object in the req_found of an installed object
\* is in the objects index and owned by a package in packages; after
\* delete_package no remaining object refers to an object of the deleted
\* package.
C7_NoDanglingReference ==
  \A o \in Installed : \A r \in req_found[o] :
    /\ r \in Installed
    /\ OwnerOf(r) \in Range(packages)

\* a delete of P after which the seeker is still installed, misses the name
\* P supplied and still holds a reference to another object
C7_Witness ==
  /\ last.op = "delete" /\ last.name = "P"
  /\ SeekerS \in Installed
  /\ LibA \in req_missing[SeekerS]
  /\ req_found[SeekerS] # {}

\* C8 (I2, compatibility): after every install_package, delete_package or
\* relink_all, an installed object can use every object in its req_found
\* under the current strict_linking, and needs that object's basename.
C8_Compatibility ==
  last.op \in LinkOps =>
    \A o \in Installed : \A r \in req_found[o] :
      /\ can_use(o, r, strict_linking)
      /\ ElfOf(r).basename \in NeededOf(o)

\* C9 (delete_package re-resolution): a remaining seeker that had a deleted
\* object in req_found loses it; on a find_for hit the hit is in req_found,
\* on a miss the basename is inserted into req_missing unless an assume-found
\* rule names it, and then nothing is inserted into either set.
C9_DeleteReresolves ==
  [][last'.op = "delete" =>
       \A seeker \in Installed' : \A elf \in req_found[seeker] \ Installed' :
         LET base == ElfOf(elf).basename
             hit  == find_for(DB', seeker, base, get_obj_libpath(DB', seeker))
         IN /\ elf \notin req_found'[seeker]
            /\ hit # NoElf => hit \in req_found'[seeker]
            /\ (hit = NoElf /\ base \notin assume_found_rules)
                 => base \in req_missing'[seeker]
            /\ (hit = NoElf /\ base \in assume_found_rules)
                 => /\ req_missing'[seeker] = req_missing[seeker]
                    /\ req_found'[seeker] = req_found[seeker] \ {elf}
    ]_vars

\* C10 (empty name rejected): install_package of a package with the empty
\* name returns false and changes neither packages, objects, the summary
\* flags nor any object's req_found or req_missing.
C10_EmptyNameRejected ==
  [][(last'.op = "install" /\ last'.name = "") =>
       /\ last'.ret = FALSE
       /\ UNCHANGED <<packages, objects, req_found, req_missing,
                      contains_package_depends, contains_groups,
                      contains_filelists>>
    ]_vars

\* C11 (delete of an absent name): delete_package(name) for a name that no
\* installed package has returns true and leaves packages, objects and every
\* object's req_found and req_missing as they were.
C11_DeleteAbsentNoOp ==
  [][(last'.op = "delete" /\ find_pkg_i(DB, last'.name) > Len(packages)) =>
       /\ last'.ret = TRUE
       /\ UNCHANGED <<packages, objects, req_found, req_missing>>
    ]_vars

\* a delete of a name that is not installed, on a database that holds
\* packages and a resolved reference
C11_Witness ==
  /\ last.op = "delete" /\ last.name = "none" /\ last.ret
  /\ Len(packages) >= 2
  /\ req_found[SeekerS] # {}

\* C12 (package-name uniqueness): after every step no two entries of packages
\* have the same name; install_package of a name that is already present
\* removes the old package, none of whose objects stays in the index, and
\* appends the new package at the end of the list.
C12_NameUniqueness ==
  [][/\ \A i, j \in 1..Len(packages') :
          i # j => Loaded[packages'[i]].name # Loaded[packages'[j]].name
     /\ (last'.op = "install" /\ find_pkg_i(DB, last'.name) <= Len(packages)) =>
          LET i   == find_pkg_i(DB, last'.name)
              old == packages[i]
          IN /\ packages' = Append(RemoveAt(packages, i), last'.pkg)
             /\ old # last'.pkg =>
                  Range(PkgObjects(old)) \cap Range(objects') = {}
    ]_vars

\* the later build of "Q" was just installed and stands last in a full list,
\* no object of the earlier build being installed
C12_Witness ==
  /\ last.op = "install" /\ last.pkg = 5
  /\ Len(packages) = MaxPackages
  /\ packages[Len(packages)] = 5
  /\ <<2, 1>> \notin Range(objects)

\* the objects of the packages of a list, package after package
RECURSIVE ObjectsOf(_)
ObjectsOf(pkgs) ==
  IF pkgs = <<>> THEN <<>>
  ELSE PkgObjects(Head(pkgs)) \o ObjectsOf(Tail(pkgs))

\* C13 (object-index consistency): the objects index holds exactly the
\* objects of the packages in packages, each once, in the order the packages
\* were installed: no object of a deleted package remains and none of an
\* installed package is absent.
C13_ObjectIndexConsistent ==
  /\ objects = ObjectsOf(packages)
  /\ \A i, j \in 1..Len(objects) : i # j => objects[i] # objects[j]

\* a delete of P that left the seeker's package and a library's package,
\* each with its object in the index
C13_Witness ==
  /\ last.op = "delete" /\ last.name = "P"
  /\ packages = <<3, 4>>
  /\ objects = << <<3, 1>>, <<4, 1>> >>

\* names asked for and extra path lists handed to find_for and elf_finds
NeededNames == {LibA, LibB, App}
ExtraLists  == {<<>>, <<DirOpt>>}

\* positions in the index of the objects obj can use, of that basename, in a
\* directory visible to obj
Matches(obj, needed, extra) ==
  {i \in 1..Len(objects) :
     /\ can_use(obj, objects[i], strict_linking)
     /\ ElfOf(objects[i]).basename = needed
     /\ elf_finds(DB, obj, ElfOf(objects[i]).dirname, extra)}

\* C14 (find_for, first match): find_for(obj, needed, extra) returns the
\* first object of the index that obj can use under strict_linking, whose
\* basename is needed and whose directory is visible to obj with extra; it
\* returns none exactly when the index holds no such object.
C14_FindForFirstMatch ==
  \A obj \in AllObjs : \A needed \in NeededNames : \A extra \in ExtraLists :
    LET M == Matches(obj, needed, extra)
        r == find_for(DB, obj, needed, extra)
    IN /\ (r = NoElf) <=> (M = {})
       /\ M # {} => \E i \in M : r = objects[i] /\ \A j \in M : i <= j

\* under strict linking the index holds /o/a, which the seeker cannot use,
\* before /lib/a, and find_for passes it over; with strict linking off the
\* first of the two matches would be /o/a
C14_Witness ==
  /\ strict_linking
  /\ objects = << <<3, 1>>, <<2, 1>>, <<1, 1>> >>
  /\ find_for(DB, SeekerS, LibA, <<DirOpt>>) = <<1, 1>>
  /\ find_for([DB EXCEPT !.strict_linking = FALSE], SeekerS, LibA, <<DirOpt>>)
       = <<2, 1>>

\* directories asked about
FindDirs == {DirLib, DirUsrLib, DirOpt, DirBin, <<>>, <<"/">>,
             DirUsrLib \o <<":">> \o DirBin}

\* the components of a colon-separated list: the maximal colon-free pieces
colon_split(list) ==
  {SubSeq(list, a, b) : <<a, b>> \in
     {ab \in (1..Len(list) + 1) \X (0..Len(list)) :
        /\ ab[2] >= ab[1] - 1
        /\ ab[1] = 1 \/ list[ab[1] - 1] = ":"
        /\ ab[2] = Len(list) \/ list[ab[2] + 1] = ":"
        /\ \A k \in ab[1]..ab[2] : list[k] # ":"}}

\* the components of every loaded object's rpath and runpath
RpathComponents   == [o \in AllObjs |-> colon_split(ElfOf(o).rpath)]
RunpathComponents == [o \in AllObjs |-> colon_split(ElfOf(o).runpath)]

\* C15 (visibility rule): elf_finds(O, dir, extra) is true exactly when dir
\* is a colon-separated component of O's rpath, if set, or of its runpath,
\* if set, or is /lib or /usr/lib, or is in library_path, or is in extra;
\* so /lib and /usr/lib are visible to an object without rpath and runpath
\* when library_path is empty.
C15_VisibilityRule ==
  \A o \in AllObjs : \A dir \in FindDirs : \A extra \in ExtraLists :
    /\ elf_finds(DB, o, dir, extra) <=>
         \/ ElfOf(o).rpath_set /\ dir \in RpathComponents[o]
         \/ ElfOf(o).runpath_set /\ dir \in RunpathComponents[o]
         \/ dir = <<"/", "l", "i", "b">>
         \/ dir = <<"/", "u", "s", "r", "/", "l", "i", "b">>
         \/ \E i \in 1..Len(library_path) : library_path[i] = dir
         \/ \E i \in 1..Len(extra) : extra[i] = dir
    /\ (~ElfOf(o).rpath_set /\ ~ElfOf(o).runpath_set /\ library_path = <<>>) =>
         /\ elf_finds(DB, o, <<"/", "l", "i", "b">>, <<>>)
         /\ elf_finds(DB, o, <<"/", "u", "s", "r", "/", "l", "i", "b">>, <<>>)

\* with library_path empty the seeker was linked to /lib/a; /b is visible to
\* it through the second component of its rpath, /o only through an extra
\* path, and /o is visible to /lib/a through its runpath
C15_Witness ==
  /\ library_path = <<>>
  /\ req_found[SeekerS] = {<<1, 1>>}
  /\ elf_finds(DB, SeekerS, DirBin, <<>>)
  /\ ~elf_finds(DB, SeekerS, DirOpt, <<>>)
  /\ elf_finds(DB, SeekerS, DirOpt, <<DirOpt>>)
  /\ elf_finds(DB, <<1, 1>>, DirOpt, <<>>)

\* C16 (link_object, outcome per need): link_object on an object that no
\* ignore rule names, starting from empty sets, leaves every needed name n in
\* exactly one outcome: a find_for hit is in req_found, also when an
\* assume-found rule names n; without a hit n is in neither set when a rule
\* names it and in req_missing otherwise.  The objects of a package that was
\* just installed hold exactly these sets.
C16_LinkObjectOutcomes ==
  \A o \in AllObjs :
    ~Ignored(o) =>
      LET r == link_object(DB, o, OwnerOf(o), EmptySets)
          names == {ElfOf(x).basename : x \in r.req_found}
      IN /\ \A n \in NeededOf(o) :
              LET hit == find_for(DB, o, n, get_pkg_libpath(DB, OwnerOf(o)))
              IN /\ hit # NoElf => hit \in r.req_found /\ n \notin r.req_missing
                 /\ (hit = NoElf /\ n \in assume_found_rules) =>
                      n \notin r.req_missing /\ n \notin names
                 /\ (hit = NoElf /\ n \notin assume_found_rules) =>
                      n \in r.req_missing /\ n \notin names
         /\ (last.op = "install" /\ OwnerOf(o) = last.pkg) =>
              req_found[o] = r.req_found /\ req_missing[o] = r.req_missing

\* the seeker's package was just installed: the name a has a hit and is
\* under an assume-found rule, the name c has neither
C16_Witness ==
  /\ last.op = "install" /\ last.pkg = 3
  /\ ~Ignored(SeekerS)
  /\ LibA \in assume_found_rules
  /\ req_found[SeekerS] = {<<1, 1>>}
  /\ req_missing[SeekerS] = {LibB}

\* C17 (ignored files are never linked): after install_package and after
\* relink_all every installed object whose full path is in ignore_file_rules
\* has req_found and req_missing empty, also when the rule was added after
\* the object had been linked.
C17_IgnoredNeverLinked ==
  last.op \in {"install"} \cup RelinkOps =>
    \A o \in Installed :
      Ignored(o) => req_found[o] = {} /\ req_missing[o] = {}

\* the slices of Count packages among T threads are well-formed, follow one
\* another from 0 to Count, and put every package in exactly one of them
SlicesPartition(Count, T) ==
  /\ \A i \in 0..T - 1 : work_from(Count, T, i) <= work_to(Count, T, i)
  /\ work_from(Count, T, 0) = 0
  /\ work_to(Count, T, T - 1) = Count
  /\ \A i \in 0..T - 2 : work_to(Count, T, i) = work_from(Count, T, i + 1)
  /\ \A k \in 0..Count - 1 :
       Cardinality({i \in 0..T - 1 :
                      work_from(Count, T, i) <= k /\ k < work_to(Count, T, i)}) = 1

AllSlicesPartition ==
  \A Count \in 1..MaxCount : \A T \in 2..MaxCount + 1 : SlicesPartition(Count, T)

\* the partial maps the workers of a threaded relink of the database build
WorkerData(T) ==
  [t \in 1..T |-> worker(DB, work_from(Len(packages), T, t - 1),
                              work_to(Len(packages), T, t - 1), EmptyTuple)]

\* C19 (work partition): for every package count from 1 on and every thread
\* count from 2 on, also a thread count above the package count, the slices
\* thread::work hands out are contiguous, pairwise disjoint and cover
\* [0, Count); no two workers write a partial-map entry for the same object
\* and every entry is written by the worker whose slice holds the owner.
C19_WorkPartition ==
  /\ AllSlicesPartition
  /\ \A T \in 2..MaxThreads :
       Len(packages) >= 1 =>
         LET \* the pairs <<t, o>>: worker t wrote an entry for object o
             written == UNION {{<<t, o>> : o \in DOMAIN D.found \cup DOMAIN D.missing}
                                 : <<t, D>> \in {<<t, WorkerData(T)[t]>> : t \in 1..T}}
         IN /\ \A e1, e2 \in written : e1[2] = e2[2] => e1[1] = e2[1]
            /\ \A e \in written :
                 \E k \in work_from(Len(packages), T, e[1] - 1) + 1
                          ..work_to(Len(packages), T, e[1] - 1) :
                   packages[k] = OwnerOf(e[2])

\* a threaded relink has run on three packages, the seeker's first: of two
\* workers the first holds the seeker's entry and the second, whose two
\* packages need nothing, none; one package among three threads goes to the
\* last thread
C19_Witness ==
  /\ last.op = "relink_threaded"
  /\ packages = <<3, 1, 4>>
  /\ DOMAIN WorkerData(2)[1].found = {<<3, 1>>}
  /\ WorkerData(2)[2] = EmptyTuple
  /\ WorkerData(3)[3] = EmptyTuple
  /\ work_to(1, 3, 2) = 1 /\ work_to(1, 3, 1) = 0

\* every worker of the relink in progress has left its loop
WorkersDone ==
  \A t \in 1..run.threadcount :
    run.at[t] = work_to(Len(packages), run.threadcount, t - 1)

\* C18 (relink phase ordering): during a threaded relink a worker's step
\* leaves every object's req_found and req_missing as they are; they change
\* only in the step of the merger, and the merger runs only when every
\* worker has left its loop and has been joined.
C18_RelinkPhaseOrdering ==
  [][run.phase # "idle" =>
       /\ run'.at # run.at => UNCHANGED <<req_found, req_missing>>
       /\ (req_found' # req_found \/ req_missing' # req_missing) =>
            run'.merges = run.merges + 1
       /\ run'.merges # run.merges =>
            run.joined = run.threadcount /\ WorkersDone
    ]_vars

\* the merger of a relink with three threads has run on three packages and
\* has given the seeker the sets its worker, the third, had computed
C18_Witness ==
  /\ run.phase = "return" /\ run.merges = 1
  /\ run.threadcount = 3 /\ packages = <<1, 4, 3>>
  /\ run.Data[3].found = (SeekerS :> {<<1, 1>>, <<4, 1>>})
  /\ req_found[SeekerS] = {<<1, 1>>, <<4, 1>>}

Running == run.phase # "idle"

\* thread::work returns from the state after the merger's only run, every
\* worker joined
ReturnsAfterMerge ==
  [][(Running /\ run'.phase = "idle") =>
       /\ run.phase = "return" /\ run.merges = 1
       /\ run.joined = run.threadcount /\ WorkersDone
    ]_vars

\* C20 (relink runs to completion): under fair scheduling the progress
\* counter only increases, is incremented once for each package a worker
\* processes and eventually equals the package count; the polling loop
\* exits, every worker is joined, the merger runs exactly once and the
\* relink returns.
C20_RelinkCompletes ==
  /\ [][(Running /\ run'.phase # "idle") =>
          /\ run'.counter >= run.counter
          /\ run'.at # run.at => run'.counter = run.counter + 1
          /\ (run.phase = "poll" /\ run'.phase # "poll") =>
               run.c = Len(packages)
          /\ run'.merges <= 1
       ]_vars
  /\ [][(Running /\ run'.phase = "idle") => run.counter = Len(packages)]_vars
  /\ ReturnsAfterMerge
  /\ Running ~> ~Running

\* C20, amended: unless opt_quiet is set the counter is incremented once for
\* each package a worker processes, by nothing else, and equals the package
\* count when the polling loop exits and from then on; with opt_quiet set the
\* counter stays 0 and nothing polls it.  In both cases, under fair
\* scheduling, every worker is joined, the merger runs exactly once and the
\* relink returns.
C20_RelinkCompletesQuietOrNot ==
  /\ [][(Running /\ run'.phase # "idle") =>
          /\ run'.counter >= run.counter
          /\ run'.at # run.at =>
               run'.counter = run.counter + (IF run.quiet THEN 0 ELSE 1)
          /\ run'.counter # run.counter => run'.at # run.at
          /\ run.quiet => run'.counter = 0 /\ run'.phase # "poll"
          /\ (run.phase = "poll" /\ run'.phase # "poll") =>
               run.c = Len(packages) /\ run.counter = Len(packages)
          /\ run'.merges <= 1
       ]_vars
  /\ [][(Running /\ run'.phase = "idle" /\ ~run.quiet) =>
          run.counter = Len(packages)]_vars
  /\ ReturnsAfterMerge
  /\ Running ~> ~Running

\* a relink of three packages by two threads, not quiet, is about to return:
\* the counter and the coordinator's copy stand at 3 and the merger has run
C20_Witness ==
  /\ run.phase = "return" /\ ~run.quiet
  /\ run.threadcount = 2 /\ Len(packages) = 3
  /\ run.counter = 3 /\ run.c = 3
  /\ run.joined = 2 /\ run.merges = 1

\* C21 (closure under dependencies): the set T of packages pulled in for a
\* focus package p holds the installed base packages and p, and for every
\* package q in T, every specifier of q.depends or q.optdepends that
\* find_depend resolves to a package r has r in T.
C21_ClosureClosed ==
  last.op = "check_integrity" =>
    LET m == integrity_maps(DB)
        T == last.ret.pulled
    IN /\ m.base \cup {last.pkg} \subseteq T
       /\ \A q \in T : \A field \in {"depends", "optdepends"} :
            \A k \in 1..Len(MetaPkg(q)[field]) :
              LET r == find_depend(MetaPkg(q)[field][k],
                                   m.pkgmap, m.providemap, m.replacemap)
              IN r # NoPkg => r \in T

\* the needs of the objects of package p
NeedsOf(p) ==
  UNION {Range(MetaPkg(p).objects[i].needed) : i \in 1..Len(MetaPkg(p).objects)}

\* C22 (integrity finding rule): for a focus package p, a need n of an
\* object of p is reported as not pulled in iff the database holds no object
\* with basename n whose owner is in the closure T; a need that no object of
\* the database is named after is always reported, and the report holds each
\* name once.
C22_FindingRule ==
  last.op = "check_integrity" =>
    /\ last.ret.needed =
         {n \in NeedsOf(last.pkg) :
            ~\E o \in Range(objects) :
               MetaElfOf(o).basename = n /\ OwnerOf(o) \in last.ret.pulled}
    /\ \A n \in NeedsOf(last.pkg) :
         (\A o \in Range(objects) : MetaElfOf(o).basename # n) => n \in last.ret.needed

\* m checked next to h and the base package k in the build with the
\* comparator: f>=2 resolves to nothing and g to k, so a is pulled in with
\* k, c is shipped by h only, which is not pulled in, and nothing ships z
C22_Witness ==
  /\ last.op = "check_integrity"
  /\ last.pkg = 6
  /\ packages = <<6, 9, 8>>
  /\ base_packages = {<<"k">>}
  /\ with_alpm
  /\ last.ret.pulled = {6, 9}
  /\ last.ret.needed = {LibB, LibZ}

\* the first package, in packages order, whose list `field` has an entry for
\* name, or NoPkg
FirstListing(field, name) ==
  LET at == {i \in 1..Len(packages) :
               \E k \in 1..Len(MetaPkg(packages[i])[field]) :
                 strip_version(MetaPkg(packages[i])[field][k]) = name}
  IN IF at = {} THEN NoPkg
     ELSE packages[CHOOSE i \in at : \A j \in at : i <= j]

\* the specifiers that are a bare name or empty
BareSpecs == {dep \in DepSpecs : \A i \in 1..Len(dep) : dep[i] \notin OpChars}

\* C23 (find_depend probe order): for a specifier without a version
\* constraint find_depend returns the installed package of that name if
\* there is one, otherwise the first package in packages order whose
\* replaces list names it, otherwise the first whose provides list names it,
\* otherwise none; the empty specifier resolves to none.
C23_ProbeOrder ==
  (last.op = "find_depend" /\ last.name \in BareSpecs) =>
    LET name   == last.name
        named  == {i \in 1..Len(packages) : MetaPkg(packages[i]).name = name}
        byrepl == FirstListing("replaces", name)
        byprov == FirstListing("provides", name)
    IN last.ret =
         IF name = <<>> THEN NoPkg
         ELSE IF named # {} THEN packages[CHOOSE i \in named : TRUE]
         ELSE IF byrepl # NoPkg THEN byrepl
         ELSE byprov

\* g looked up where k and h provide it and n replaces it: n is returned
\* although k comes first in packages
C23_Witness ==
  /\ last.op = "find_depend"
  /\ last.name = <<"g">>
  /\ packages = <<9, 10, 8>>
  /\ last.ret = 10

\* the installed packages that list the path, and those of them that
\* conflict with no other package listing it
Listing(file) == {p \in Range(packages) : file \in Range(MetaPkg(p).filelist)}
Kept(file) ==
  {a \in Listing(file) : \A b \in Listing(file) \ {a} : ~ConflictsWith(a, b)}
ListedFiles == UNION {Range(MetaPkg(p).filelist) : p \in Range(packages)}

\* C24 (file-conflict filtering): for every path listed by two or more
\* packages, a package is dropped from the path's bucket iff it conflicts
\* with another package of the bucket, and the path is reported, with the
\* packages that remain, iff at least two remain.  Two packages sharing a
\* path give no finding when one declares the other's name in conflicts and
\* one finding naming both when neither declares any conflict.
C24_FileConflictFiltering ==
  last.op = "file_conflicts" =>
    /\ DOMAIN last.ret =
         {f \in ListedFiles : Cardinality(Listing(f)) >= 2 /\ Cardinality(Kept(f)) >= 2}
    /\ \A f \in DOMAIN last.ret :
         /\ Range(last.ret[f]) = Kept(f)
         /\ Len(last.ret[f]) = Cardinality(Kept(f))
    /\ Len(packages) = 2 =>
         LET A == packages[1]
             B == packages[2]
             shared == Range(MetaPkg(A).filelist) \cap Range(MetaPkg(B).filelist)
         IN shared # {} =>
              /\ (\/ MetaPkg(B).name \in Range(MetaPkg(A).conflicts)
                  \/ MetaPkg(A).name \in Range(MetaPkg(B).conflicts))
                   => DOMAIN last.ret = {}
              /\ (MetaPkg(A).conflicts = <<>> /\ MetaPkg(B).conflicts = <<>>)
                   => last.ret = [f \in shared |-> <<A, B>>]

\* f, m and h all list /e and f conflicts with m: f is dropped and the
\* path is reported for m and h
C24_Witness ==
  /\ last.op = "file_conflicts"
  /\ packages = <<7, 6, 8>>
  /\ last.ret = (FileEtc :> <<6, 8>>)

\* C25 (version table, same operator): for every operator OP and every
\* version V, version_satisfies(OP, V, OP, V) is true.
C25_SameOperatorMatches ==
  (/\ last.op = "version_satisfies"
   /\ last.name.dop = last.name.pop
   /\ last.name.dver = last.name.pver) => last.ret = TRUE

\* the provides entries of package p that are `n=ver` for the name n
ProvidesEq(p, n) ==
  {sp.ver : sp \in {s \in {split_depstring(MetaPkg(p).provides[i]) :
                             i \in 1..Len(MetaPkg(p).provides)} :
                      s.name = n /\ s.op = OpEq}}

\* C26 (not-equal dependency against a provider): in the build with the
\* comparator a dependency n!=V is not satisfied by a candidate package,
\* whatever its own version, whose provides entry for n is n=V, and is
\* satisfied by a candidate whose provides entry for n is n=W with W # V.
C26_NotEqualAgainstProvider ==
  (last.op = "package_satisfies" /\ last.name.op = OpNe) =>
    LET provided == ProvidesEq(last.pkg, last.name.name)
    IN /\ provided = {last.name.ver} => last.ret = FALSE
       /\ (provided # {} /\ last.name.ver \notin provided) => last.ret = TRUE

\* C27 (name-only matching without a comparator): in the build without the
\* comparator a specifier `name OP version` is matched as the bare name:
\* find_depend resolves it as it resolves name, and a.ConflictsWith(b) is
\* true when a.conflicts has a specifier whose name is b's name or a name in
\* b.provides.
C27_NameOnlyWithoutComparator ==
  ~with_alpm =>
    /\ (last.op = "find_depend" /\ last.name # <<>>) =>
         LET m == integrity_maps(DB)
         IN last.ret = find_depend(strip_version(last.name),
                                   m.pkgmap, m.providemap, m.replacemap)
    /\ last.op = "file_conflicts" =>
         \A a \in Range(packages) : \A b \in Range(packages) \ {a} :
           \A i \in 1..Len(MetaPkg(a).conflicts) :
             LET name == strip_version(MetaPkg(a).conflicts[i])
             IN (\/ MetaPkg(b).name = name
                 \/ \E k \in 1..Len(MetaPkg(b).provides) :
                      strip_version(MetaPkg(b).provides[k]) = name)
                  => ConflictsWith(a, b)

NoDuplicates(list) ==
  \A i \in 1..Len(list) : \A j \in 1..Len(list) : list[i] = list[j] => i = j

\* C28 (library_path has no duplicates): after any sequence of ld_append,
\* ld_prepend, ld_insert, ld_delete and ld_clear no directory occurs twice
\* in library_path; inserting a directory that is already present moves it,
\* so the list keeps its length and its elements, and returns false without
\* change when the directory is already at the requested index.
C28_LibraryPathNoDuplicates ==
  [][ /\ NoDuplicates(library_path')
      /\ (last'.op = "ld_insert"
            /\ fixpath(last'.name.dir) \in Range(library_path)) =>
           LET dir == fixpath(last'.name.dir)
               i   == IF last'.name.i > Len(library_path)
                      THEN Len(library_path) ELSE last'.name.i
           IN /\ Len(library_path') = Len(library_path)
              /\ Range(library_path') = Range(library_path)
              /\ IndexOf(library_path, dir) = i + 1 =>
                   (last'.ret = FALSE /\ library_path' = library_path)
    ]_vars

\* the delete named by the last call fails: unknown package, unknown
\* directory, or index out of range
DeleteFails(map, call) ==
  \/ call.name.package \notin DOMAIN map
  \/ /\ call.op = "pkg_ld_delete_dir"
     /\ fixpath(call.name.arg) \notin Range(map[call.name.package])
  \/ /\ call.op = "pkg_ld_delete_at"
     /\ call.name.arg >= Len(map[call.name.package])

\* C29 (per-package path pruning): after any sequence of pkg_ld_insert,
\* pkg_ld_delete (by directory or by index) and pkg_ld_clear no package name
\* is mapped to an empty list; a delete that removes a package's last
\* directory removes the package's key; a failed delete (unknown package,
\* unknown directory, index out of range) returns false and leaves the
\* mapping unchanged.
C29_PkgPathPruning ==
  [][ /\ \A n \in DOMAIN package_library_path' :
           Len(package_library_path'[n]) > 0
      /\ last'.op \in {"pkg_ld_delete_dir", "pkg_ld_delete_at"} =>
           IF DeleteFails(package_library_path, last')
           THEN /\ last'.ret = FALSE
                /\ package_library_path' = package_library_path
           ELSE /\ last'.ret = TRUE
                /\ Len(package_library_path[last'.name.package]) = 1 =>
                     last'.name.package \notin DOMAIN package_library_path'
    ]_vars

\* the last directory of Q was deleted by index 0 and the key is gone
C29_Witness ==
  /\ last.op = "pkg_ld_delete_at"
  /\ last.ret = TRUE
  /\ last.name.package = "Q"
  /\ last.name.arg = 0
  /\ "Q" \notin DOMAIN package_library_path

\* C30 (ignore rules are stored normalized): ignore_file(f) stores
\* normalize(f) and returns whether it was new, unignore_file(f) removes
\* normalize(f) and returns whether it was there, so two spellings of one
\* path leave one rule and either removes the other's rule; an object whose
\* full path has the normal form of an ignored spelling is skipped by
\* link_object: installed, it gets no found and no missing libraries.
C30_IgnoreRulesNormalized ==
  [][ /\ last'.op = "ignore_file" =>
           /\ ignore_file_rules' = ignore_file_rules \cup {fixpath(last'.name)}
           /\ last'.ret = (fixpath(last'.name) \notin ignore_file_rules)
      /\ last'.op = "unignore_file" =>
           /\ ignore_file_rules' = ignore_file_rules \ {fixpath(last'.name)}
           /\ last'.ret = (fixpath(last'.name) \in ignore_file_rules)
      /\ (/\ last'.op = "install"
          /\ last'.ret = TRUE
          /\ \E f \in ignore_file_rules :
               fixpath(f) = fixpath(FullPath(<<3, 1>>))) =>
           /\ req_found'[<<3, 1>>] = {}
           /\ req_missing'[<<3, 1>>] = {}
    ]_vars

\* no installed object of d misses a name that find_for finds for it with
\* its own package's extra paths
MissingSound(d) ==
  \A o \in Range(d.objects) : \A n \in d.req_missing[o] :
    find_for(d, o, n, get_obj_libpath(d, o)) = NoElf

\* C31 (missing-set soundness after install): after install_package(P) on a
\* database whose sets were consistent before the call, no installed object
\* o keeps in req_missing a name for which find_for(o, n,
\* package_library_path[owner of o]) returns an object; a seeker that sees a
\* new object only through its own package's extra path has the need moved
\* out of req_missing.
C31_MissingSoundAfterInstall ==
  [][ (last'.op = "install" /\ last'.ret = TRUE /\ MissingSound(DB)) =>
        MissingSound(DB') ]_vars

\* C32 (move position and bounds): for a directory already present in the
\* list, ld_insert(dir, i), pkg_ld_insert(pkg, dir, i) and ld_append(dir)
\* never insert past the end of the list the old entry was erased from;
\* afterwards the list has the length it had and dir sits at the 0-based
\* index min(i, length - 1).
C32_MoveWithinBounds ==
  [][ LET c      == last'
          before == IF c.name.global THEN library_path
                    ELSE PathOf(package_library_path, c.name.package)
          after  == IF c.name.global THEN library_path'
                    ELSE PathOf(package_library_path', c.name.package)
          dir    == fixpath(c.name.dir)
          at     == IF c.name.i > Len(before) - 1 THEN Len(before) - 1
                    ELSE c.name.i
      IN (/\ c.op \in {"ld_insert", "ld_append", "pkg_ld_insert", "crash"}
          /\ dir \in Range(before)) =>
           /\ c.op # "crash"
           /\ Len(after) = Len(before)
           /\ after[at + 1] = dir
    ]_vars

\* C33 (closure computation terminates): on every installed package set,
\* with dependency cycles and self-dependencies through depends,
\* optdepends, provides or replaces, install_recursive returns, and the
\* pulled list never holds a package twice.
C33_ClosureTerminates ==
  /\ [](run.phase \in {"walk", "done"} => NoDuplicates(run.walk.pulled))
  /\ (run.phase = "walk") ~> (run.phase = "done")

\* the walk from s through s, t and u has returned: s depends on itself and
\* on t, t depends on s, u on what it provides and on t
C33_Witness ==
  /\ run.phase = "done"
  /\ run.focus = 11
  /\ {11, 12, 13} \subseteq Range(packages)
  /\ Range(run.walk.pulled) = {11, 12, 13}

\* C34 (wiped copy keeps the configuration): the database made by
\* DB(wiped = true, copy) has no packages and no objects and the same
\* library_path, package_library_path, ignore_file_rules,
\* assume_found_rules, base_packages and strict_linking as the source.
C34_WipedCopyKeepsConfiguration ==
  [][ (last'.op = "copy" /\ last'.name = TRUE) =>
        /\ packages' = <<>>
        /\ objects' = <<>>
        /\ library_path' = library_path
        /\ package_library_path' = package_library_path
        /\ ignore_file_rules' = ignore_file_rules
        /\ assume_found_rules' = assume_found_rules
        /\ base_packages' = base_packages
        /\ strict_linking' = strict_linking
    ]_vars

\* how often a path occurs in the file list of a package
RECURSIVE TimesListed(_, _, _)
TimesListed(p, file, k) ==
  IF k > Len(MetaPkg(p).filelist) THEN 0
  ELSE (IF MetaPkg(p).filelist[k] = file THEN 1 ELSE 0)
         + TimesListed(p, file, k + 1)

\* C35 (file-conflict findings name distinct packages): every finding of
\* the file-conflict pass lists at least two different packages; a path
\* that occurs more than once in the file list of one package and in no
\* other package produces no finding.
C35_FindingsNameDistinctPackages ==
  last.op = "file_conflicts" =>
    /\ \A f \in DOMAIN last.ret : Cardinality(Range(last.ret[f])) >= 2
    /\ \A p \in Range(packages) : \A f \in Range(MetaPkg(p).filelist) :
         (/\ TimesListed(p, f, 1) > 1
          /\ \A q \in Range(packages) \ {p} :
               f \notin Range(MetaPkg(q).filelist))
           => f \notin DOMAIN last.ret

\* the values of the lines of one key, in the order of the lines
RECURSIVE ValuesOf(_, _)
ValuesOf(lines, key) ==
  IF lines = <<>> THEN <<>>
  ELSE (IF Head(lines).key = key THEN << Head(lines).value >> ELSE <<>>)
       \o ValuesOf(Tail(lines), key)

\* the value of the last line of one key, the empty string without one
LastValueOf(lines, key) ==
  IF ValuesOf(lines, key) = <<>> THEN <<>>
  ELSE ValuesOf(lines, key)[Len(ValuesOf(lines, key))]

\* C36: with package_depends set, read_info appends the value of every
\* depend, optdepend, conflict, provides and replaces line of the .PKGINFO
\* to the package's list of that kind; with the option unset the five lists
\* stay empty while the name and the version are still read.
C36_InfoListsLoaded ==
  last.op = "read_info" =>
    /\ last.ret.ok
    /\ last.ret.pkg.name = LastValueOf(run.lines, KeyPkgname)
    /\ last.ret.pkg.version = LastValueOf(run.lines, KeyPkgver)
    /\ IF run.package_depends
       THEN /\ last.ret.pkg.depends = ValuesOf(run.lines, KeyDepend)
            /\ last.ret.pkg.optdepends = ValuesOf(run.lines, KeyOptdepend)
            /\ last.ret.pkg.conflicts = ValuesOf(run.lines, KeyConflict)
            /\ last.ret.pkg.provides = ValuesOf(run.lines, KeyProvides)
            /\ last.ret.pkg.replaces = ValuesOf(run.lines, KeyReplaces)
       ELSE /\ last.ret.pkg.depends = <<>>
            /\ last.ret.pkg.optdepends = <<>>
            /\ last.ret.pkg.conflicts = <<>>
            /\ last.ret.pkg.provides = <<>>
            /\ last.ret.pkg.replaces = <<>>

====
